---- MODULE Spec2Model ----
(***************************************************************************)
(* A model of the smart_dumper package: the volume planner of              *)
(* DumpWorker.run, the nested ignore-rule engine (GitIgnoreEngine), the    *)
(* secondary ignore layer (SmartIgnore), the traversal collector           *)
(* (FileCollectionMixin) and the cooperative cancellation of a run.        *)
(*                                                                         *)
(* The module holds several specifications over one set of variables.      *)
(* Each specification drives one part of the program and leaves the        *)
(* variables of the other parts at their initial value.                    *)
(***************************************************************************)
EXTENDS Integers, Sequences, FiniteSets, TLC

VARIABLES
    \* ---- DumpWorker configuration (dump_worker.py __init__)
    max_output_files,   \* self.max_output_files
    create_index,       \* self.create_index
    \* ---- planner state (dump_worker.py run, lines 306-419)
    root_files,         \* root_files: files collected at root level
    top_level_scan,     \* per top-level folder, in discovery order: what collection returned
    analyzed_folders,   \* analyzed_folders, ranked
    planned_dumps,      \* planned_dumps
    plan_pc,            \* position of run() in the planning phase
    \* ---- the repository on disk and the rest of the configuration
    rule_files,         \* per place of RuleFileLocs: the lines of the rule file there
    rule_read_fail,     \* per place of RuleFileLocs: -1 when the rule file reads
                        \* through, else the lines it hands out before the read raises
    listing_rev,        \* whether the filesystem lists directory entries in descending order
    custom_excludes,    \* self.custom_excludes
    exclusion_mode,     \* self.exclusion_mode
    ignore_txt,         \* self.ignore_txt
    ignore_md,          \* self.ignore_md
    use_smartignore_exclude,    \* self.use_smartignore_exclude
    \* ---- SmartIgnore
    smartignore_patterns,   \* self.smartignore.patterns
    \* ---- GitIgnoreEngine
    rules,              \* self.gitignore.rules
    ign_pc,             \* "fresh" until load_all_gitignores has run, then "loaded"
    query,              \* the last call match_ignore(path, is_dir): <<path, is_dir>>
    verdict,            \* what that call returned
    \* ---- one run of DumpWorker.run (dump_worker.py lines 285-522)
    stop_event,         \* self.stop_event.is_set()
    run_pc,             \* position of run()
    vol_i,              \* the volume the write loop is at (1-based)
    step_k,             \* position of the innermost file / volume loop
    chunk_k,            \* position of the chunk / line loop inside it
    log,                \* what run() passed to self.log, the progress lines left out
    generated_meta,     \* generated_meta: the volumes whose writer returned a meta
    out_files,          \* the files of the output directory opened for writing, in order
    last_exception_traceback,   \* self.last_exception_traceback
    output_format,      \* self.output_format
    create_single_upload_doc,   \* self.create_single_upload_doc
    create_smartignore_paths_index, \* self.create_smartignore_paths_index
    \* ---- FileProcessor.process_file_content on one file
    proc_file,          \* the path f of the file
    file_bytes,         \* the bytes of the file on disk, one character each
    file_readable,      \* whether read_text succeeds on it
    proc_pc,            \* how many times the file was processed
    first_record,       \* what the first call returned
    second_record,      \* what the second call returned
    reads,              \* how many times the content of the file was read
    \* ---- one call of write_volume (dump_worker.py lines 245-279)
    vol_plan,           \* the files of the planned volume, in the order of the plan
    unreadable,         \* the files of the tree on which read_text fails
    vol_files,          \* files, once the writer has sorted it
    vol_pc,             \* position of the writer
    worker_results,     \* per file of files: what its worker returned, once it has
    completion,         \* the order the workers completed in
    vol_k,              \* how many results the loop of line 40 has taken
    file_data_list,     \* file_data_list
    vol_index,          \* the paths of the index entries written
    vol_bodies,         \* the paths of the file bodies written
    vol_meta,           \* what the writer returned
    \* ---- the record of secondary-ignore matches
    matched_paths,      \* self.smartignore_matched_paths
    matched_dirs,       \* self.smartignore_matched_dirs
    eval_k,             \* how many paths phase 1 has handed to the matcher
    \* ---- wrap_cdata on one text
    cdata_text,         \* the text
    cdata_out           \* what wrap_cdata returned

planVars == <<max_output_files, create_index, root_files, top_level_scan,
              analyzed_folders, planned_dumps, plan_pc>>

diskVars == <<rule_files, rule_read_fail, listing_rev, custom_excludes, exclusion_mode,
              ignore_txt, ignore_md, use_smartignore_exclude>>

ignVars == <<smartignore_patterns, rules, ign_pc, query, verdict>>

runConf == <<output_format, create_single_upload_doc,
             create_smartignore_paths_index>>

runVars == <<stop_event, run_pc, vol_i, step_k, chunk_k, log, generated_meta, out_files,
             last_exception_traceback, runConf>>

procVars == <<proc_file, file_bytes, file_readable, proc_pc, first_record,
              second_record, reads>>

volVars == <<vol_plan, unreadable, vol_files, vol_pc, worker_results,
             completion, vol_k, file_data_list, vol_index, vol_bodies,
             vol_meta>>

matchVars == <<matched_paths, matched_dirs, eval_k>>

cdataVars == <<cdata_text, cdata_out>>

vars == <<planVars, diskVars, ignVars, runVars, procVars, volVars, matchVars,
          cdataVars>>

(***************************************************************************)
(* Bounds of the model.                                                    *)
(***************************************************************************)
MaxOut == 5          \* largest max_output_files argument tried
MaxFolders == 3      \* most top-level folders
MaxFiles == 1        \* most files collection returns for one folder / the root
MaxSize == 2         \* largest aggregate folder size
MaxRuleLines == 2    \* most lines in all the rule files together
MaxCollectLines == 2 \* most lines in all the rule files together, in SpecCollect
MaxScanPolls == 2    \* most loop iterations of phase 1 in a run of SpecRun
MaxRunVolumes == 2   \* most planned volumes in a run of SpecRun
MaxRunFiles == 2     \* most files of a volume in a run of SpecRun
MaxFileLen == 6      \* most bytes of the file that is processed
ChunkMaxLines == 2   \* self.chunk_max_lines, scaled down
OversizeBytes == 5   \* self.oversize_bytes, scaled down
MaxVolFiles == 3     \* most files of the volume that is written
MaxTextLen == 6      \* most characters of the text handed to wrap_cdata
MaxRunChunks == 2    \* most chunks of a file / blocks copied of an output file

(***************************************************************************)
(* Generic helpers.                                                        *)
(***************************************************************************)
Max(a, b) == IF a >= b THEN a ELSE b

Min(a, b) == IF a <= b THEN a ELSE b

Range(s) == {s[i] : i \in DOMAIN s}

RECURSIVE Concat(_)
\* list.extend over a sequence of sequences
Concat(ss) ==
    IF ss = <<>> THEN <<>>
    ELSE IF Len(ss) = 1 THEN ss[1]
    ELSE Concat(SubSeq(ss, 1, Len(ss) \div 2))
         \o Concat(SubSeq(ss, Len(ss) \div 2 + 1, Len(ss)))

\* s[:n] of Python for n >= 0
Take(s, n) == SubSeq(s, 1, Min(n, Len(s)))

\* s[n:] of Python for n >= 0
Drop(s, n) == SubSeq(s, Min(n, Len(s)) + 1, Len(s))

(***************************************************************************)
(* Text.  A Python str is a sequence of one-character strings; a path is   *)
(* a sequence of names (its parts below the filesystem root "/").          *)
(***************************************************************************)

\* str.startswith
StartsWith(s, pre) == Len(pre) <= Len(s) /\ SubSeq(s, 1, Len(pre)) = pre

\* str.endswith
EndsWith(s, suf) ==
    Len(suf) <= Len(s) /\ SubSeq(s, Len(s) - Len(suf) + 1, Len(s)) = suf

RECURSIVE RStrip(_, _)
\* str.rstrip(chars)
RStrip(s, chars) ==
    IF s # <<>> /\ s[Len(s)] \in chars
    THEN RStrip(SubSeq(s, 1, Len(s) - 1), chars)
    ELSE s

RECURSIVE LStrip(_, _)
\* str.lstrip(chars)
LStrip(s, chars) ==
    IF s # <<>> /\ Head(s) \in chars THEN LStrip(Tail(s), chars) ELSE s

\* the characters str.strip() removes, among those the model writes
Whitespace == {" ", "\t", "\n", "\r"}

\* str.strip()
Strip(s) == LStrip(RStrip(s, Whitespace), Whitespace)

\* "/" in s
HasSlash(s) == \E i \in DOMAIN s : s[i] = "/"

RECURSIVE JoinSlash(_)
\* "/".join(parts)
JoinSlash(parts) ==
    IF parts = <<>> THEN <<>>
    ELSE IF Len(parts) = 1 THEN parts[1]
    ELSE parts[1] \o <<"/">> \o JoinSlash(Tail(parts))

RECURSIVE SplitSlash(_)
\* s.split("/")
SplitSlash(s) ==
    IF ~HasSlash(s) THEN <<s>>
    ELSE LET i == CHOOSE k \in DOMAIN s :
                      s[k] = "/" /\ \A j \in 1..(k - 1) : s[j] # "/"
         IN  <<SubSeq(s, 1, i - 1)>> \o SplitSlash(SubSeq(s, i + 1, Len(s)))

RECURSIVE FnMatch(_, _)
\* fnmatch.fnmatch(name, pat) on a POSIX system, for the patterns of "*", "?"
\* and literal characters (no pattern of the model holds "["): "*" matches any
\* run of characters, "/" included, "?" any one character
FnMatch(name, pat) ==
    IF pat = <<>> THEN name = <<>>
    ELSE IF Head(pat) = "*"
         THEN FnMatch(name, Tail(pat))
              \/ (name # <<>> /\ FnMatch(Tail(name), pat))
    ELSE IF name = <<>> THEN FALSE
    ELSE (Head(pat) = "?" \/ Head(pat) = Head(name))
         /\ FnMatch(Tail(name), Tail(pat))

\* str(path) of an absolute POSIX path
PathStr(path) ==
    IF path = <<>> THEN <<"/">>
    ELSE Concat([i \in 1..Len(path) |-> <<"/">> \o path[i]])

\* base == path or base in path.parents: what Path.relative_to accepts
IsUnder(path, base) ==
    Len(base) <= Len(path) /\ SubSeq(path, 1, Len(base)) = base

\* path.relative_to(base).as_posix(), defined when IsUnder(path, base)
RelPosix(path, base) ==
    IF Len(path) = Len(base) THEN <<".">>
    ELSE JoinSlash(SubSeq(path, Len(base) + 1, Len(path)))

\* path.name
PathName(path) == IF path = <<>> THEN <<>> ELSE path[Len(path)]

\* path.parent
Parent(path) == SubSeq(path, 1, Len(path) - 1)


(***************************************************************************)
(* Planner: DumpWorker.__init__ and DumpWorker.run, phase 1 ranking and    *)
(* the volume plan.                                                        *)
(***************************************************************************)

\* self.max_output_files = max(2, int(max_output_files))
ClampMaxOutputFiles(n) == Max(2, n)

\* the files of folder `name` as collection returns them: k distinct paths
FolderFiles(name, k) == [i \in 1..k |-> <<name, i>>]

\* one top-level folder as the scan loop sees it (lines 343-351): its
\* collected files, their aggregate byte size and whether the folder is
\* custom-excluded (the first folder discovered may be, under a mode that
\* lists names)
ScanEntries(name) ==
    {[name |-> name, files |-> FolderFiles(name, k), bytes |-> sz,
      excluded |-> exc] :
        k \in 1..MaxFiles, sz \in 0..MaxSize,
        exc \in IF name = 1 THEN BOOLEAN ELSE {FALSE}}
    \cup {[name |-> name, files |-> <<>>, bytes |-> 0, excluded |-> FALSE]}

\* lines 349-351: if f_files: analyzed_folders.append(...), with
\* size = 0 if self.is_custom_excluded(folder) else sum(...)
RECURSIVE KeepNonEmpty(_)
KeepNonEmpty(scan) ==
    IF scan = <<>> THEN <<>>
    ELSE IF Head(scan).files # <<>>
         THEN <<[name |-> Head(scan).name, files |-> Head(scan).files,
                 size |-> IF Head(scan).excluded THEN 0
                          ELSE Head(scan).bytes]>> \o KeepNonEmpty(Tail(scan))
         ELSE KeepNonEmpty(Tail(scan))

\* mutant of InsertDesc: x goes before the elements of its own size (the sort
\* is not stable)
RECURSIVE InsertDescBeforeEquals(_, _)
InsertDescBeforeEquals(sorted, x) ==
    IF sorted = <<>> THEN <<x>>
    ELSE IF Head(sorted).size > x.size
         THEN <<Head(sorted)>> \o InsertDescBeforeEquals(Tail(sorted), x)
         ELSE <<x>> \o sorted

\* insertion of x into a list already sorted by size descending, after every
\* element of size >= x.size (a stable sort keeps equal keys in input order)
RECURSIVE InsertDesc(_, _)
InsertDesc(sorted, x) ==
    IF sorted = <<>> THEN <<x>>
    ELSE IF Head(sorted).size >= x.size
         THEN <<Head(sorted)>> \o InsertDesc(Tail(sorted), x)
         ELSE <<x>> \o sorted

RECURSIVE SortBySizeDesc(_)
\* analyzed_folders.sort(key=size, reverse=True)
SortBySizeDesc(fs) ==
    IF fs = <<>> THEN <<>>
    ELSE InsertDesc(SortBySizeDesc(SubSeq(fs, 1, Len(fs) - 1)), fs[Len(fs)])

\* available_slots after the reservations of lines 360-366
ReservedSlots(maxOut, idx) ==
    LET a == maxOut - 1 - (IF idx THEN 1 ELSE 0)
    IN  IF a < 1 THEN 1 ELSE a

\* lines 368-373: the ROOT volume and the slots left after it
RootPlan(rootFiles, slots) ==
    IF rootFiles # <<>> /\ slots > 0
    THEN <<[idx |-> 1, kind |-> "ROOT", name |-> 0, files |-> rootFiles]>>
    ELSE <<>>

SlotsAfterRoot(rootFiles, slots) ==
    IF rootFiles # <<>> /\ slots > 0 THEN slots - 1 ELSE slots

\* one folder volume (lines 378-388 and 394-404)
FolderVolume(folder, idx) ==
    [idx |-> idx, kind |-> "FOLDER", name |-> folder.name, files |-> folder.files]

\* mutant of OthersPlan: only the first remaining folder is kept
OthersPlanFirstOnly(remaining) ==
    IF remaining # <<>> /\ remaining[1].files # <<>>
    THEN <<[idx |-> 99, kind |-> "OTHERS", name |-> 0, files |-> remaining[1].files]>>
    ELSE <<>>

\* lines 406-419: the overflow volume, planned only when it holds a file
OthersPlan(remaining) ==
    LET others_files == Concat([i \in 1..Len(remaining) |-> remaining[i].files])
    IN  IF others_files # <<>>
        THEN <<[idx |-> 99, kind |-> "OTHERS", name |-> 0, files |-> others_files]>>
        ELSE <<>>

\* mutant of FolderPlan: distinct_count = available_slots (no slot kept for OTHERS)
FolderPlanNoOthersSlot(folders, start_idx, available_slots) ==
    IF Len(folders) <= available_slots
    THEN [i \in 1..Len(folders) |-> FolderVolume(folders[i], start_idx + i - 1)]
    ELSE LET distinct_count == Max(0, available_slots)
             top_folders == Take(folders, distinct_count)
             remaining_folders == Drop(folders, distinct_count)
         IN  [i \in 1..Len(top_folders) |->
                 FolderVolume(top_folders[i], start_idx + i - 1)]
             \o OthersPlan(remaining_folders)

\* lines 375-419
FolderPlan(folders, start_idx, available_slots) ==
    IF Len(folders) <= available_slots
    THEN [i \in 1..Len(folders) |-> FolderVolume(folders[i], start_idx + i - 1)]
    ELSE LET distinct_count == Max(0, available_slots - 1)
             top_folders == Take(folders, distinct_count)
             remaining_folders == Drop(folders, distinct_count)
         IN  [i \in 1..Len(top_folders) |->
                 FolderVolume(top_folders[i], start_idx + i - 1)]
             \o OthersPlan(remaining_folders)

\* lines 355-419 as a whole
PlanDumps(rootFiles, folders, maxOut, idx) ==
    LET slots == ReservedSlots(maxOut, idx)
        rootPart == RootPlan(rootFiles, slots)
    IN  rootPart \o FolderPlan(folders, Len(rootPart) + 1,
                               SlotsAfterRoot(rootFiles, slots))

RECURSIVE ScanSeqs(_)
\* the scans of f top-level folders, named 1..f in discovery order
ScanSeqs(f) ==
    IF f = 0 THEN {<<>>}
    ELSE {Append(s, e) : s \in ScanSeqs(f - 1), e \in ScanEntries(f)}

(***************************************************************************)
(* The repository on disk: a fixed tree below root_dir = /r whose rule     *)
(* files (.gitignore, .smartignore) hold the lines the state gives them.   *)
(***************************************************************************)
N_r == <<"r">>
N_s == <<"s">>
N_s2 == <<"s", "2">>
N_b == <<"b">>
N_c == <<"c">>
N_out == <<"o", "u", "t">>
N_a_md == <<"a", ".", "m", "d">>
N_x_txt == <<"x", ".", "t", "x", "t">>
N_m_py == <<"m", ".", "p", "y">>
N_e_db == <<"e", ".", "d", "b">>
N_Fact == <<"F", "a", "c", "t">>
N_gitignore == <<".", "g", "i", "t", "i", "g", "n", "o", "r", "e">>
N_smartignore == <<".", "s", "m", "a", "r", "t", "i", "g", "n", "o", "r", "e">>

\* self.root_dir
RootDir == <<N_r>>

D_s == <<N_r, N_s>>
D_s_b == <<N_r, N_s, N_b>>
D_s_b_c == <<N_r, N_s, N_b, N_c>>
D_s2 == <<N_r, N_s2>>
D_out == <<N_r, N_out>>

Dirs == {RootDir, D_s, D_s_b, D_s_b_c, D_s2, D_out}

\* the content files of the tree (the rule files come on top, see FileListing)
Files ==
    {<<N_r, N_a_md>>, <<N_r, N_x_txt>>,
     <<N_r, N_s, N_m_py>>, <<N_r, N_s, N_b, N_x_txt>>,
     <<N_r, N_s, N_b, N_c, N_m_py>>,
     <<N_r, N_s2, N_a_md>>, <<N_r, N_s2, N_e_db>>, <<N_r, N_s2, N_Fact>>,
     <<N_r, N_out, N_m_py>>}

Paths == Dirs \cup Files

IsDir(path) == path \in Dirs

\* the directory entries of `dir` in ascending name order, as sequences
DirListing(dir) ==
    IF dir = RootDir THEN <<D_out, D_s, D_s2>>
    ELSE IF dir = D_s THEN <<D_s_b>>
    ELSE IF dir = D_s_b THEN <<D_s_b_c>>
    ELSE <<>>

StaticFiles(dir) ==
    IF dir = RootDir THEN <<<<N_r, N_a_md>>, <<N_r, N_x_txt>>>>
    ELSE IF dir = D_s THEN <<<<N_r, N_s, N_m_py>>>>
    ELSE IF dir = D_s_b THEN <<<<N_r, N_s, N_b, N_x_txt>>>>
    ELSE IF dir = D_s_b_c THEN <<<<N_r, N_s, N_b, N_c, N_m_py>>>>
    ELSE IF dir = D_s2
         THEN <<<<N_r, N_s2, N_Fact>>, <<N_r, N_s2, N_a_md>>, <<N_r, N_s2, N_e_db>>>>
    ELSE IF dir = D_out THEN <<<<N_r, N_out, N_m_py>>>>
    ELSE <<>>

\* s reversed
Reverse(s) == [i \in 1..Len(s) |-> s[Len(s) + 1 - i]]

\* the order in which os.walk / os.listdir hand out the entries of a
\* directory is the filesystem's: ascending or descending here
Listed(entries, rev) == IF rev THEN Reverse(entries) ELSE entries

\* the members of ALWAYS_IGNORE_DIRS, ALWAYS_IGNORE_EXT and ALWAYS_IGNORE_FILES
\* that occur among the names of the tree
ALWAYS_IGNORE_DIRS == {N_out}

ALWAYS_IGNORE_EXT == {<<".", "d", "b">>}

ALWAYS_IGNORE_FILES == {N_Fact}

\* the places where the tree may hold a rule file: <<directory, file name>>
RuleFileLocs ==
    <<  <<RootDir, N_gitignore>>, <<RootDir, N_smartignore>>,
        <<D_s, N_gitignore>>, <<D_s2, N_gitignore>> >>

\* the rule files of the tree that hold a line, as paths
RuleFilePaths ==
    {Append(RuleFileLocs[i][1], RuleFileLocs[i][2]) : i \in DOMAIN RuleFileLocs}

\* the file entries of `dir` in ascending name order: its rule files that
\* exist (hold a line), then its content files
FileListing(dir) ==
    SelectSeq([i \in DOMAIN RuleFileLocs |->
                   Append(RuleFileLocs[i][1], RuleFileLocs[i][2])],
              LAMBDA f : Parent(f) = dir /\ \E i \in DOMAIN RuleFileLocs :
                            /\ f = Append(RuleFileLocs[i][1], RuleFileLocs[i][2])
                            /\ rule_files[i] # <<>>)
    \o StaticFiles(dir)

\* the lines a rule file may hold
LinePool ==
    {<<"b", "/">>, <<"!", "b", "/">>, <<"/", "b", "/">>, <<"s", "/", "b", "/">>,
     <<"*", ".", "t", "x", "t">>, <<"!", "x", ".", "t", "x", "t">>,
     N_a_md, <<"#", "b">>, <<"*">>}

(***************************************************************************)
(* GitIgnoreEngine (gitignore_engine.py).                                  *)
(***************************************************************************)

\* the byte-order mark, one character
BOM == "BOM"

RECURSIVE StripTrailingSpaces(_)
\* while line.endswith(" ") and not line.endswith("\\ "): line = line[:-1]
StripTrailingSpaces(line) ==
    IF EndsWith(line, <<" ">>) /\ ~EndsWith(line, <<"\\", " ">>)
    THEN StripTrailingSpaces(SubSeq(line, 1, Len(line) - 1))
    ELSE line

\* lines 81-89: the anchor mark, and the rule
ParseAnchor(line, neg, dir_only) ==
    LET anchored == StartsWith(line, <<"/">>)
        pat == IF anchored THEN Tail(line) ELSE line
    IN  IF pat = <<>> THEN <<>>
        ELSE <<[pattern |-> pat, neg |-> neg, dir_only |-> dir_only,
                anchored |-> anchored]>>

\* lines 76-79: the directory-only mark
ParseMarks(line, neg) ==
    IF EndsWith(line, <<"/">>)
    THEN ParseAnchor(SubSeq(line, 1, Len(line) - 1), neg, TRUE)
    ELSE ParseAnchor(line, neg, FALSE)

\* lines 68-74: negation, unless the "!" was escaped
ParseNegation(line, escaped_prefix) ==
    IF StartsWith(line, <<"!">>) /\ ~escaped_prefix
    THEN IF Tail(line) = <<>> THEN <<>> ELSE ParseMarks(Tail(line), TRUE)
    ELSE ParseMarks(line, FALSE)

\* lines 61-66: comments, unless the "#" was escaped
ParseComment(line, escaped_prefix) ==
    IF escaped_prefix
    THEN ParseNegation(Tail(line), TRUE)
    ELSE IF StartsWith(line, <<"#">>) THEN <<>>
    ELSE ParseNegation(line, FALSE)

\* lines 58-64: blank lines, and whether the first character is escaped
ParseBlank(line) ==
    IF Strip(line) = <<>> THEN <<>>
    ELSE ParseComment(line, StartsWith(line, <<"\\", "#">>)
                            \/ StartsWith(line, <<"\\", "!">>))

\* lines 55-56: a trailing space escaped as "\ " is kept
ParseSpaces(line) ==
    IF EndsWith(line, <<"\\", " ">>)
    THEN ParseBlank(SubSeq(line, 1, Len(line) - 2) \o <<" ">>)
    ELSE ParseBlank(line)

\* lines 45-54: empty line, byte-order mark, trailing spaces
ParseLineEnd(line) ==
    IF line = <<>> THEN <<>>
    ELSE ParseSpaces(StripTrailingSpaces(LStrip(line, {BOM})))

\* _parse_gitignore_line(raw): <<>> for None, else <<the rule, without base>>
parse_gitignore_line(raw) == ParseLineEnd(RStrip(RStrip(raw, {"\n"}), {"\r"}))

\* DumpWorker.is_custom_excluded(path)
is_custom_excluded(path) ==
    \E exc \in custom_excludes : IsUnder(path, exc)

\* lines 113-125: the sub-directories load_all_gitignores descends into
LoadSafeDirs(dir) ==
    SelectSeq(Listed(DirListing(dir), listing_rev),
              LAMBDA d : /\ PathName(d) \notin ALWAYS_IGNORE_DIRS
                         /\ ~(is_custom_excluded(d) /\ exclusion_mode = "Fully Exclude"))

RECURSIVE LoadWalk(_)
\* the directories os.walk(root_dir) yields to load_all_gitignores, in order
\* (top-down: a directory before the directories below it)
LoadWalk(dir) ==
    LET safe == LoadSafeDirs(dir)
    IN  <<dir>> \o Concat([i \in 1..Len(safe) |-> LoadWalk(safe[i])])

\* the lines of the rule file `fname` of `dir` (none when there is no such file)
LinesOf(dir, fname) ==
    LET hits == {i \in DOMAIN RuleFileLocs : RuleFileLocs[i] = <<dir, fname>>}
    IN  IF hits = {} THEN <<>> ELSE rule_files[CHOOSE i \in hits : TRUE]

RECURSIVE ParseLines(_, _)
\* lines 134-139: every parsed line of one rule file, with base = its directory
ParseLines(lines, base) ==
    IF lines = <<>> THEN <<>>
    ELSE LET parsed == parse_gitignore_line(Head(lines))
         IN  (IF parsed = <<>> THEN <<>>
              ELSE <<[pattern |-> parsed[1].pattern, neg |-> parsed[1].neg,
                      dir_only |-> parsed[1].dir_only,
                      anchored |-> parsed[1].anchored, base |-> base]>>)
             \o ParseLines(Tail(lines), base)

\* no rule file fails to read
AllReadable == [i \in DOMAIN RuleFileLocs |-> -1]

\* lines 132-139: the lines `for raw in f` hands out before the read of the
\* rule file raises (all of them when it does not; none when open() raises)
ReadLines(dir, fname) ==
    LET hits == {i \in DOMAIN RuleFileLocs : RuleFileLocs[i] = <<dir, fname>>}
        i == CHOOSE i \in hits : TRUE
    IN  IF hits = {} THEN <<>>
        ELSE IF rule_read_fail[i] = -1 THEN rule_files[i]
        ELSE Take(rule_files[i], rule_read_fail[i])

\* lines 127-143: the rules of one directory, .gitignore before .smartignore;
\* the rules appended before a read raises stay in the list
RulesOfDir(dir) ==
    ParseLines(ReadLines(dir, N_gitignore), dir)
    \o ParseLines(ReadLines(dir, N_smartignore), dir)

\* lines 106, 141: the value of count when the walk is over, the rule files
\* of the directories walked that are listed and read through
LoadedCount ==
    Cardinality({i \in DOMAIN RuleFileLocs :
                    /\ RuleFileLocs[i][1] \in Range(LoadWalk(RootDir))
                    /\ rule_files[i] # <<>>
                    /\ rule_read_fail[i] = -1})

\* mutant of load_all_gitignores: the rule files are read deepest first
load_all_gitignores_bottom_up ==
    LET walk == Reverse(LoadWalk(RootDir))
    IN  Concat([i \in 1..Len(walk) |-> RulesOfDir(walk[i])])

\* load_all_gitignores(): the value of self.rules
load_all_gitignores ==
    LET walk == LoadWalk(RootDir)
    IN  Concat([i \in 1..Len(walk) |-> RulesOfDir(walk[i])])

\* _rule_applies(rule_base, path)
rule_applies(rule_base, path) == StartsWith(PathStr(path), PathStr(rule_base))

\* mutant of match_rule: the path is not required to lie under the rule's base
match_rule_any_base(rule, path, is_dir) ==
    LET rel_from_base ==
            IF IsUnder(path, rule.base) THEN RelPosix(path, rule.base)
            ELSE JoinSlash(path)
        name == PathName(path)
        pat == rule.pattern
    IN  IF rule.dir_only
        THEN IF ~is_dir THEN FALSE
             ELSE IF rule.anchored \/ HasSlash(pat)
                  THEN \/ FnMatch(rel_from_base, pat)
                       \/ rel_from_base = pat
                       \/ StartsWith(rel_from_base, pat \o <<"/">>)
                  ELSE FnMatch(name, pat)
        ELSE IF rule.anchored \/ HasSlash(pat)
             THEN FnMatch(rel_from_base, pat)
             ELSE FnMatch(name, pat)

\* mutant of match_rule: a directory-only path pattern is matched by glob only
match_rule_no_prefix(rule, path, is_dir) ==
    IF ~IsUnder(path, rule.base) THEN FALSE
    ELSE LET rel_from_base == RelPosix(path, rule.base)
             name == PathName(path)
             pat == rule.pattern
         IN  IF rule.dir_only
             THEN IF ~is_dir THEN FALSE
                  ELSE IF rule.anchored \/ HasSlash(pat)
                       THEN FnMatch(rel_from_base, pat)
                       ELSE FnMatch(name, pat)
             ELSE IF rule.anchored \/ HasSlash(pat)
                  THEN FnMatch(rel_from_base, pat)
                  ELSE FnMatch(name, pat)

\* _match_rule(rule, path, is_dir)
match_rule(rule, path, is_dir) ==
    IF ~IsUnder(path, rule.base) THEN FALSE
    ELSE LET rel_from_base == RelPosix(path, rule.base)
             name == PathName(path)
             pat == rule.pattern
         IN  IF rule.dir_only
             THEN IF ~is_dir THEN FALSE
                  ELSE IF rule.anchored \/ HasSlash(pat)
                       THEN \/ FnMatch(rel_from_base, pat)
                            \/ rel_from_base = pat
                            \/ StartsWith(rel_from_base, pat \o <<"/">>)
                       ELSE FnMatch(name, pat)
             ELSE IF rule.anchored \/ HasSlash(pat)
                  THEN FnMatch(rel_from_base, pat)
                  ELSE FnMatch(name, pat)

RECURSIVE MatchLoop(_, _, _, _)
\* the loop of match_ignore over rs, entered with `ignored`
MatchLoop(rs, path, is_dir, ignored) ==
    IF rs = <<>> THEN ignored
    ELSE LET rule == Head(rs)
         IN  IF ~rule_applies(rule.base, path)
             THEN MatchLoop(Tail(rs), path, is_dir, ignored)
             ELSE IF match_rule(rule, path, is_dir)
                  THEN MatchLoop(Tail(rs), path, is_dir, ~rule.neg)
                  ELSE MatchLoop(Tail(rs), path, is_dir, ignored)

RECURSIVE MatchLoopFirstWins(_, _, _)
MatchLoopFirstWins(rs, path, is_dir) ==
    IF rs = <<>> THEN FALSE
    ELSE IF rule_applies(Head(rs).base, path) /\ match_rule(Head(rs), path, is_dir)
         THEN ~Head(rs).neg
         ELSE MatchLoopFirstWins(Tail(rs), path, is_dir)

\* mutant of match_ignore_with: the first matching rule decides
match_ignore_first_wins(rs, path, is_dir) == MatchLoopFirstWins(rs, path, is_dir)

\* match_ignore(path, is_dir) when self.rules = rs
match_ignore_with(rs, path, is_dir) == MatchLoop(rs, path, is_dir, FALSE)

\* match_ignore(path, is_dir)
match_ignore(path, is_dir) == match_ignore_with(rules, path, is_dir)

(***************************************************************************)
(* SmartIgnore (worker/smartignore.py).                                    *)
(***************************************************************************)
RECURSIVE SmartIgnoreLoadLines(_)
\* the loop of SmartIgnore.load over raw_lines
SmartIgnoreLoadLines(lines) ==
    IF lines = <<>> THEN <<>>
    ELSE (IF Strip(Head(lines)) = <<>> \/ StartsWith(Strip(Head(lines)), <<"#">>)
          THEN <<>>
          ELSE <<Strip(Head(lines))>>)
         \o SmartIgnoreLoadLines(Tail(lines))

\* SmartIgnore.load(): the value of self.patterns (no file, no pattern)
SmartIgnore_load == SmartIgnoreLoadLines(LinesOf(RootDir, N_smartignore))

\* path.rsplit("/", 1)[-1]
LastSegment(path) == SplitSlash(path)[Len(SplitSlash(path))]

\* lines 126-132: some suffix of the path, cut at a segment boundary, matches
SmartSuffixMatch(parts, pat) ==
    \E i \in 1..(Len(parts) - 1) :
        FnMatch(JoinSlash(SubSeq(parts, i + 1, Len(parts))), pat)

\* lines 106-132: the loop body returns True for the pattern `pat`
SmartPatternHits(pat, path) ==
    IF StartsWith(pat, <<"/">>) THEN FnMatch(path, Tail(pat))
    ELSE IF ~HasSlash(pat) THEN FnMatch(LastSegment(path), pat)
    ELSE FnMatch(path, pat) \/ SmartSuffixMatch(SplitSlash(path), pat)

\* lines 98-104: a directory-only pattern, its "/" already cut off
SmartDirOnly(pat, path, is_dir) ==
    IF pat = <<>> \/ ~is_dir THEN FALSE ELSE SmartPatternHits(pat, path)

\* lines 93-132: one pass of the loop of SmartIgnore.match
SmartPatternBody(pat, path, is_dir) ==
    IF pat = <<>> THEN FALSE
    ELSE IF EndsWith(pat, <<"/">>)
         THEN SmartDirOnly(Strip(SubSeq(pat, 1, Len(pat) - 1)), path, is_dir)
    ELSE SmartPatternHits(pat, path)

RECURSIVE SmartMatchLoop(_, _, _)
\* for pat_raw in self.patterns: ... return True at the first hit
SmartMatchLoop(pats, path, is_dir) ==
    IF pats = <<>> THEN FALSE
    ELSE IF SmartPatternBody(Strip(Head(pats)), path, is_dir) THEN TRUE
    ELSE SmartMatchLoop(Tail(pats), path, is_dir)

\* SmartIgnore.match(rel_posix, is_dir)
SmartIgnore_match(rel_posix, is_dir) ==
    IF smartignore_patterns = <<>> THEN FALSE
    ELSE SmartMatchLoop(smartignore_patterns, rel_posix, is_dir)

\* SmartIgnore.should_exclude(rel_posix, is_dir)
should_exclude(rel_posix, is_dir) ==
    SmartIgnore_match(rel_posix, is_dir) /\ use_smartignore_exclude

(***************************************************************************)
(* File collection (worker/file_collection.py) and phase 1 of              *)
(* DumpWorker.run.                                                         *)
(***************************************************************************)

\* str.lower() on the characters of the names of the tree
Lower(s) == [i \in DOMAIN s |-> IF s[i] = "F" THEN "f" ELSE s[i]]

\* the index of the last "." of name, 0 when there is none: name.rfind(".") + 1
RFindDot(name) ==
    IF \E i \in DOMAIN name : name[i] = "."
    THEN CHOOSE i \in DOMAIN name :
             name[i] = "." /\ \A j \in (i + 1)..Len(name) : name[j] # "."
    ELSE 0

\* PurePath.suffix: the last dot and what follows it, unless that dot opens or
\* closes the name
Suffix(name) ==
    IF RFindDot(name) > 1 /\ RFindDot(name) < Len(name)
    THEN SubSeq(name, RFindDot(name), Len(name))
    ELSE <<>>

\* DumpWorker.get_file_size: the size on disk; the file being processed holds
\* file_bytes, every other file of the tree one byte for each character of its
\* name
get_file_size(f) == IF f = proc_file THEN Len(file_bytes) ELSE Len(PathName(f))

RECURSIVE SumSizes(_)
\* sum(self.get_file_size(f) for f in f_files)
SumSizes(fs) ==
    IF fs = <<>> THEN 0 ELSE get_file_size(Head(fs)) + SumSizes(Tail(fs))

\* mutant of CollectDirSafe: the rule engine is not asked about directories
CollectDirSafeNoRules(d) ==
    /\ PathName(d) \notin ALWAYS_IGNORE_DIRS
    /\ ~(smartignore_patterns # <<>>
         /\ SmartIgnore_match(RelPosix(d, RootDir), TRUE)
         /\ use_smartignore_exclude)
    /\ ~(is_custom_excluded(d) /\ exclusion_mode = "Fully Exclude")

\* file_collection.py lines 47-79: directory d is kept in dirnames
CollectDirSafe(d) ==
    /\ PathName(d) \notin ALWAYS_IGNORE_DIRS
    /\ ~(smartignore_patterns # <<>>
         /\ SmartIgnore_match(RelPosix(d, RootDir), TRUE)
         /\ use_smartignore_exclude)
    /\ ~match_ignore(d, TRUE)
    /\ ~(is_custom_excluded(d) /\ exclusion_mode = "Fully Exclude")

\* file_collection.py lines 84-125: file f reaches valid_files.append
CollectFileValid(f) ==
    /\ PathName(f) \notin ALWAYS_IGNORE_FILES
    /\ Lower(Suffix(PathName(f))) \notin ALWAYS_IGNORE_EXT
    /\ ~(smartignore_patterns # <<>>
         /\ SmartIgnore_match(RelPosix(f, RootDir), FALSE)
         /\ use_smartignore_exclude)
    /\ ~match_ignore(f, FALSE)
    /\ ~(is_custom_excluded(f) /\ exclusion_mode = "Fully Exclude")
    /\ ~(ignore_txt /\ Lower(Suffix(PathName(f))) = <<".", "t", "x", "t">>)
    /\ ~(ignore_md /\ Lower(Suffix(PathName(f))) = <<".", "m", "d">>)

RECURSIVE CollectWalk(_)
\* the directories os.walk(folder) yields once dirnames[:] = safe_dirs pruned
\* it, in order
CollectWalk(dir) ==
    <<dir>>
    \o Concat([i \in 1..Len(SelectSeq(Listed(DirListing(dir), listing_rev),
                                      CollectDirSafe)) |->
                  CollectWalk(SelectSeq(Listed(DirListing(dir), listing_rev),
                                        CollectDirSafe)[i])])

\* the valid files of the visited directories, in visiting order
CollectVisit(visited) ==
    Concat([i \in 1..Len(visited) |->
               SelectSeq(Listed(FileListing(visited[i]), listing_rev),
                         CollectFileValid)])

\* collect_files_in_folder(folder_path, recursive)
collect_files_in_folder(folder_path, recursive) ==
    IF recursive THEN CollectVisit(CollectWalk(folder_path))
    ELSE CollectVisit(<<folder_path>>)

\* dump_worker.py lines 315-338: a directory of the root reaches
\* top_level_items.append
TopLevelKept(full_path) ==
    /\ PathName(full_path) \notin ALWAYS_IGNORE_DIRS
    /\ ~(smartignore_patterns # <<>>
         /\ should_exclude(RelPosix(full_path, RootDir), TRUE))
    /\ ~match_ignore(full_path, TRUE)
    /\ ~(is_custom_excluded(full_path) /\ exclusion_mode = "Fully Exclude")

\* lines 310-340: top_level_items
TopLevelItems == SelectSeq(Listed(DirListing(RootDir), listing_rev), TopLevelKept)

\* lines 343-351: what the scan loop finds out about one top-level folder
ScanFolder(folder) ==
    [name |-> PathName(folder),
     files |-> collect_files_in_folder(folder, TRUE),
     bytes |-> SumSizes(collect_files_in_folder(folder, TRUE)),
     excluded |-> is_custom_excluded(folder)]

(***************************************************************************)
(* The record of secondary-ignore matches (SmartIgnore._record_match,      *)
(* DumpWorker._record_smartignore_match) along phase 1.                    *)
(***************************************************************************)

\* mutant of RecordedPaths: a match is recorded only when it also excludes
RecordedPathsWhenExcluding(paths, rel_posix) ==
    IF ~(create_smartignore_paths_index /\ use_smartignore_exclude) THEN paths
    ELSE paths \cup {rel_posix}

\* smartignore.py lines 76-78, dump_worker.py lines 190-192: matched_paths
\* after a match of rel_posix
RecordedPaths(paths, rel_posix) ==
    IF ~create_smartignore_paths_index THEN paths
    ELSE paths \cup {rel_posix}

\* smartignore.py lines 76-80, dump_worker.py lines 190-194: matched_dirs
\* after a match of rel_posix
RecordedDirs(dirs, rel_posix, is_dir) ==
    IF ~create_smartignore_paths_index THEN dirs
    ELSE IF is_dir THEN dirs \cup {rel_posix}
    ELSE dirs

\* file_collection.py lines 46-65, 84-106: the paths one round of the loop of
\* os.walk hands to the matcher, the directories of dir, then its files
DirEvaluations(dir) ==
    LET dirs == SelectSeq(Listed(DirListing(dir), listing_rev),
                          LAMBDA d : PathName(d) \notin ALWAYS_IGNORE_DIRS)
        files == SelectSeq(Listed(FileListing(dir), listing_rev),
                           LAMBDA f :
                               /\ PathName(f) \notin ALWAYS_IGNORE_FILES
                               /\ Lower(Suffix(PathName(f))) \notin ALWAYS_IGNORE_EXT)
    IN  [i \in DOMAIN dirs |-> <<dirs[i], TRUE>>]
        \o [i \in DOMAIN files |-> <<files[i], FALSE>>]

\* the paths collect_files_in_folder hands to the matcher over the
\* directories it visits
WalkEvaluations(visited) ==
    Concat([i \in 1..Len(visited) |-> DirEvaluations(visited[i])])

\* dump_worker.py lines 315-326: the paths the top-level loop hands to
\* should_exclude
TopLevelEvaluations ==
    LET dirs == SelectSeq(Listed(DirListing(RootDir), listing_rev),
                          LAMBDA d : PathName(d) \notin ALWAYS_IGNORE_DIRS)
    IN  [i \in DOMAIN dirs |-> <<dirs[i], TRUE>>]

\* run() lines 309-351: every <<path, is_dir>> phase 1 hands to the matcher,
\* in order (none when there is no pattern)
PhaseEvaluations ==
    IF smartignore_patterns = <<>> THEN <<>>
    ELSE LET items == TopLevelItems
         IN  WalkEvaluations(<<RootDir>>)
             \o TopLevelEvaluations
             \o Concat([i \in DOMAIN items |->
                           WalkEvaluations(CollectWalk(items[i]))])

(***************************************************************************)
(* FileProcessor (worker/file_processing.py) and chunk_lines_keepends,     *)
(* short_sha1 (xml_utils.py).                                              *)
(***************************************************************************)

\* the characters at which str.splitlines cuts, among those a file holds here
LineBoundaries == {"\n", "\r"}

RECURSIVE UniversalNewlines(_)
\* the newline translation of a text-mode read (newline=None): "\r\n" and a
\* lone "\r" are handed out as "\n"
UniversalNewlines(bs) ==
    IF bs = <<>> THEN <<>>
    ELSE IF Head(bs) = "\r"
         THEN IF Len(bs) >= 2 /\ bs[2] = "\n"
              THEN <<"\n">> \o UniversalNewlines(SubSeq(bs, 3, Len(bs)))
              ELSE <<"\n">> \o UniversalNewlines(Tail(bs))
    ELSE <<Head(bs)>> \o UniversalNewlines(Tail(bs))

\* f.read_text(encoding="utf-8", errors="replace") on ASCII bytes
read_text(bs) == UniversalNewlines(bs)

\* where the first line boundary of text is, 0 when there is none
FirstBoundary(text) ==
    IF \E i \in DOMAIN text : text[i] \in LineBoundaries
    THEN CHOOSE k \in DOMAIN text :
             text[k] \in LineBoundaries
             /\ \A j \in 1..(k - 1) : text[j] \notin LineBoundaries
    ELSE 0

\* the length of the first line of a non-empty text, its ending included
\* ("\r\n" is one ending)
FirstLineLen(text) ==
    IF FirstBoundary(text) = 0 THEN Len(text)
    ELSE IF /\ text[FirstBoundary(text)] = "\r"
            /\ FirstBoundary(text) < Len(text)
            /\ text[FirstBoundary(text) + 1] = "\n"
         THEN FirstBoundary(text) + 1
    ELSE FirstBoundary(text)

RECURSIVE splitlines_keepends(_)
\* text.splitlines(True)
splitlines_keepends(text) ==
    IF text = <<>> THEN <<>>
    ELSE <<SubSeq(text, 1, FirstLineLen(text))>>
         \o splitlines_keepends(SubSeq(text, FirstLineLen(text) + 1, Len(text)))

\* lines[i : i + max_lines] for a 0-based i
LinesPart(lines, i, max_lines) ==
    SubSeq(lines, i + 1, Min(i + max_lines, Len(lines)))

\* mutant of ChunkStart: the next chunk starts at the line its predecessor
\* ended at
ChunkStartOverlapping(end) == end

\* xml_utils.py line 118: start = end + 1
ChunkStart(end) == end + 1

RECURSIVE ChunkLoop(_, _, _, _)
\* xml_utils.py lines 113-118: the while loop
ChunkLoop(lines, i, start, max_lines) ==
    IF i >= Len(lines) THEN <<>>
    ELSE <<[start_line |-> start,
            end_line |-> start + Len(LinesPart(lines, i, max_lines)) - 1,
            text |-> Concat(LinesPart(lines, i, max_lines))]>>
         \o ChunkLoop(lines, i + max_lines,
                      ChunkStart(start + Len(LinesPart(lines, i, max_lines)) - 1),
                      max_lines)

\* chunk_lines_keepends(text, max_lines)
chunk_lines_keepends(text, max_lines) ==
    IF text = <<>> THEN <<[start_line |-> 1, end_line |-> 0, text |-> <<>>]>>
    ELSE ChunkLoop(splitlines_keepends(text), 0, 1, max_lines)

RECURSIVE Decimal(_)
\* str(n) for n >= 0
Decimal(n) ==
    IF n < 10
    THEN <<<<"0", "1", "2", "3", "4", "5", "6", "7", "8", "9">>[n + 1]>>
    ELSE Decimal(n \div 10) \o Decimal(n % 10)

\* short_sha1(s): the digest, which stands here for the string it was taken
\* of (no two strings of the model share a digest)
short_sha1(s) == <<"sha1", s>>

\* what process_file_content returns when it returns None
NoneRecord == [kind |-> "None"]

\* mutant of ModeListsNames: no mode lists names only
ModeListsNamesNever(mode) == FALSE

\* "Names" in exclusion_mode, over the modes the interface offers
ModeListsNames(mode) == mode = "List Folders & Files Names"

\* mutant of FileId: the id counts the reads made so far
FileIdPerCall(rel_path, size_bytes, kind, content) ==
    short_sha1(rel_path \o <<"\n">> \o Decimal(reads))

\* lines 90-94: the id of a record
FileId(rel_path, size_bytes, kind, content) ==
    IF kind \in {"source", "markdown"} /\ content # <<>> /\ size_bytes <= OversizeBytes
    THEN short_sha1(rel_path \o <<"\n">> \o content)
    ELSE short_sha1(rel_path \o <<"\n">> \o Decimal(size_bytes) \o <<"\n", kind>>)

\* lines 96-113: the chunks of a record, <<>> for None
FileChunks(file_id, line_count, kind, content) ==
    IF kind \in {"source", "markdown"} /\ content # <<>> /\ line_count > ChunkMaxLines
    THEN [c \in 1..Len(chunk_lines_keepends(content, ChunkMaxLines)) |->
            [id |-> <<file_id, ":",
                      Decimal(chunk_lines_keepends(content, ChunkMaxLines)[c].start_line),
                      "-",
                      Decimal(chunk_lines_keepends(content, ChunkMaxLines)[c].end_line)>>,
             start_line |-> chunk_lines_keepends(content, ChunkMaxLines)[c].start_line,
             end_line |-> chunk_lines_keepends(content, ChunkMaxLines)[c].end_line,
             text |-> chunk_lines_keepends(content, ChunkMaxLines)[c].text]]
    ELSE <<>>

\* lines 90-124: the record built from what lines 58-88 found out
BuildRecord(rel_path, ext, size_bytes, line_count, kind, content) ==
    [rel_path |-> rel_path,
     ext |-> ext,
     size_bytes |-> size_bytes,
     line_count |-> line_count,
     kind |-> kind,
     file_id |-> FileId(rel_path, size_bytes, kind, content),
     chunks |-> FileChunks(FileId(rel_path, size_bytes, kind, content),
                           line_count, kind, content),
     content |-> IF FileChunks(FileId(rel_path, size_bytes, kind, content),
                               line_count, kind, content) # <<>>
                 THEN <<>> ELSE content]

\* lines 128-140: the error pseudo-entry
ErrorRecord(f, message) ==
    [rel_path |-> PathName(f),
     ext |-> <<>>,
     size_bytes |-> 0,
     line_count |-> 0,
     kind |-> "error",
     file_id |-> short_sha1(PathName(f)),
     chunks |-> <<>>,
     content |-> message]

\* the bytes f holds: file_bytes in the file being processed, the characters
\* of its name in every other file of the tree
FileContent(f) == IF f = proc_file THEN file_bytes ELSE PathName(f)

\* whether read_text succeeds on f
Readable(f) == IF f = proc_file THEN file_readable ELSE f \notin unreadable

\* lines 78-88 read the content of f: it is neither custom-excluded nor
\* oversized
ReadsContent(f) == ~is_custom_excluded(f) /\ get_file_size(f) <= OversizeBytes

\* lines 66-77: a custom-excluded file
ExcludedRecord(f) ==
    IF ModeListsNames(exclusion_mode)
    THEN BuildRecord(RelPosix(f, RootDir), Lower(Suffix(PathName(f))), 0, 0,
                     "list_name_only", <<>>)
    ELSE BuildRecord(RelPosix(f, RootDir), Lower(Suffix(PathName(f))),
                     get_file_size(f), 0, "metadata_only", <<>>)

\* lines 78-88: a file that is not custom-excluded
IncludedRecord(f) ==
    IF get_file_size(f) > OversizeBytes
    THEN BuildRecord(RelPosix(f, RootDir), Lower(Suffix(PathName(f))),
                     get_file_size(f), 0, "oversized",
                     <<"SKIPPED_OVERSIZED: ">> \o Decimal(get_file_size(f))
                         \o <<" bytes">>)
    ELSE IF ~Readable(f) THEN ErrorRecord(f, <<"PermissionError">>)
    ELSE BuildRecord(RelPosix(f, RootDir), Lower(Suffix(PathName(f))),
                     get_file_size(f),
                     Len(splitlines_keepends(read_text(FileContent(f)))),
                     IF Lower(Suffix(PathName(f))) = <<".", "m", "d">>
                     THEN "markdown" ELSE "source",
                     read_text(FileContent(f)))

\* FileProcessor.process_file_content(f)
process_file_content(f) ==
    IF stop_event THEN NoneRecord
    ELSE IF is_custom_excluded(f) THEN ExcludedRecord(f)
    ELSE IncludedRecord(f)

(***************************************************************************)
(* The volume writers (worker/writers_text.py, worker/writers_xml.py,      *)
(* DumpWorker.write_volume_xml).                                           *)
(***************************************************************************)

\* the characters of the names of the tree, in code point order
CodePointOrder ==
    <<".", "/", "0", "1", "2", "3", "4", "5", "6", "7", "8", "9", "F", "_",
      "a", "b", "c", "d", "e", "f", "g", "h", "i", "j", "k", "l", "m", "n",
      "o", "p", "q", "r", "s", "t", "u", "v", "w", "x", "y", "z">>

\* ord(c), up to the order it gives
Ord(c) == CHOOSE i \in DOMAIN CodePointOrder : CodePointOrder[i] = c

RECURSIVE StrLess(_, _)
\* a < b on strings
StrLess(a, b) ==
    IF b = <<>> THEN FALSE
    ELSE IF a = <<>> THEN TRUE
    ELSE IF Head(a) = Head(b) THEN StrLess(Tail(a), Tail(b))
    ELSE Ord(Head(a)) < Ord(Head(b))

\* the sort key of writers_text.py line 65 and dump_worker.py line 262
SortKey(f) == Lower(RelPosix(f, RootDir))

RECURSIVE InsertByKey(_, _)
\* x put into a list sorted by key, behind the elements whose key is not
\* greater (list.sort is stable)
InsertByKey(sorted, x) ==
    IF sorted = <<>> THEN <<x>>
    ELSE IF StrLess(SortKey(x), SortKey(Head(sorted))) THEN <<x>> \o sorted
    ELSE <<Head(sorted)>> \o InsertByKey(Tail(sorted), x)

RECURSIVE SortByLowerPath(_)
\* files.sort(key=lambda p: p.relative_to(self.root_dir).as_posix().lower())
SortByLowerPath(fs) ==
    IF fs = <<>> THEN <<>>
    ELSE InsertByKey(SortByLowerPath(SubSeq(fs, 1, Len(fs) - 1)), fs[Len(fs)])

\* a worker that has not returned yet
PendingRecord == [kind |-> "pending"]

\* mutant of NextResult: the results are taken in the order the workers
\* complete in
NextResultAsCompleted(k) ==
    IF k + 1 <= Len(completion) THEN completion[k + 1] ELSE k + 1

\* executor.map hands the results out in the order of files: after k results
\* the next is that of file k + 1
NextResult(k) == k + 1

\* mutant of Falsy: the record of a file that could not be read counts as no
\* result
FalsyOrFailed(res) == res.kind \in {"None", "error"}

\* `not res` of line 42
Falsy(res) == res = NoneRecord

\* the entries of file_data_list that the text writer lists in
\* contained_files (line 163); the XML writer lists every entry (line 204)
ContainedFiles(paths) ==
    IF output_format = "xml" THEN paths
    ELSE SelectSeq(paths, LAMBDA rel_path : rel_path # <<>>)

(***************************************************************************)
(* sanitize_xml_text, cdata_safe, wrap_cdata (xml_utils.py).               *)
(***************************************************************************)

\* _is_xml10_char(ord(ch)) on the characters of a text of the model, of which
\* the form feed (0x0C) alone is illegal in XML 1.0
is_xml10_char(ch) == ch # "\f"

\* sanitize_xml_text(text)
sanitize_xml_text(text) == SelectSeq(text, is_xml10_char)

RECURSIVE StrReplace(_, _, _)
\* s.replace(old, new): the occurrences of old, found from the left and not
\* overlapping, give way to new
StrReplace(s, old, new) ==
    IF Len(s) < Len(old) THEN s
    ELSE IF SubSeq(s, 1, Len(old)) = old
         THEN new \o StrReplace(SubSeq(s, Len(old) + 1, Len(s)), old, new)
    ELSE <<Head(s)>> \o StrReplace(Tail(s), old, new)

CDATA_OPEN == <<"<", "!", "[", "C", "D", "A", "T", "A", "[">>

CDATA_END == <<"]", "]", ">">>

\* mutant of cdata_safe: the terminators of the text are left as they are
cdata_safe_unsplit(text) == sanitize_xml_text(text)

\* cdata_safe(text): s.replace("]]>", "]]]]><![CDATA[>")
cdata_safe(text) ==
    StrReplace(sanitize_xml_text(text), CDATA_END,
               <<"]", "]">> \o CDATA_END \o CDATA_OPEN \o <<">">>)

\* wrap_cdata(text)
wrap_cdata(text) == CDATA_OPEN \o cdata_safe(text) \o CDATA_END

(***************************************************************************)
(* Specifications.  The values the variables of a part keep while another  *)
(* part is driven:                                                         *)
(***************************************************************************)
PlanIdle ==
    /\ max_output_files = 2
    /\ create_index = FALSE
    /\ root_files = <<>>
    /\ top_level_scan = <<>>
    /\ analyzed_folders = <<>>
    /\ planned_dumps = <<>>
    /\ plan_pc = "idle"

DiskIdle ==
    /\ rule_files = [i \in DOMAIN RuleFileLocs |-> <<>>]
    /\ rule_read_fail = AllReadable
    /\ listing_rev = FALSE
    /\ custom_excludes = {}
    /\ exclusion_mode = "Fully Exclude"
    /\ ignore_txt = FALSE
    /\ ignore_md = FALSE
    /\ use_smartignore_exclude = FALSE

IgnIdle ==
    /\ smartignore_patterns = <<>>
    /\ rules = <<>>
    /\ ign_pc = "idle"
    /\ query = <<>>
    /\ verdict = FALSE

RunIdle ==
    /\ stop_event = FALSE
    /\ run_pc = "idle"
    /\ vol_i = 0
    /\ step_k = 0
    /\ chunk_k = 0
    /\ log = <<>>
    /\ generated_meta = <<>>
    /\ out_files = <<>>
    /\ last_exception_traceback = "None"
    /\ output_format = "text"
    /\ create_single_upload_doc = FALSE
    /\ create_smartignore_paths_index = FALSE

VolIdle ==
    /\ vol_plan = <<>>
    /\ unreadable = {}
    /\ vol_files = <<>>
    /\ vol_pc = "idle"
    /\ worker_results = <<>>
    /\ completion = <<>>
    /\ vol_k = 0
    /\ file_data_list = <<>>
    /\ vol_index = <<>>
    /\ vol_bodies = <<>>
    /\ vol_meta = [returned |-> "nothing"]

MatchIdle ==
    /\ matched_paths = {}
    /\ matched_dirs = {}
    /\ eval_k = 0

CdataIdle ==
    /\ cdata_text = <<>>
    /\ cdata_out = <<>>

ProcIdle ==
    /\ proc_file = <<>>
    /\ file_bytes = <<>>
    /\ file_readable = TRUE
    /\ proc_pc = "idle"
    /\ first_record = <<>>
    /\ second_record = <<>>
    /\ reads = 0

(***************************************************************************)
(* SpecPlan: the planning phase of DumpWorker.run over every collection    *)
(* result within the bounds.                                               *)
(***************************************************************************)
PlanInit ==
    /\ \E n \in 0..MaxOut : max_output_files = ClampMaxOutputFiles(n)
    /\ create_index \in BOOLEAN
    /\ \E k \in 0..MaxFiles : root_files = FolderFiles(0, k)
    /\ \E f \in 0..MaxFolders : top_level_scan \in ScanSeqs(f)
    /\ analyzed_folders = <<>>
    /\ planned_dumps = <<>>
    /\ plan_pc = "scan"
    /\ DiskIdle
    /\ IgnIdle
    /\ RunIdle
    /\ ProcIdle
    /\ VolIdle
    /\ MatchIdle
    /\ CdataIdle

\* lines 342-353: keep the folders that hold files, rank them by size
AnalyzeFolders ==
    /\ plan_pc = "scan"
    /\ analyzed_folders' = SortBySizeDesc(KeepNonEmpty(top_level_scan))
    /\ plan_pc' = "plan"
    /\ UNCHANGED <<max_output_files, create_index, root_files, top_level_scan,
                   planned_dumps>>
    /\ UNCHANGED <<diskVars, ignVars, runVars, procVars, volVars, matchVars, cdataVars>>

\* lines 355-419: plan the volumes
PlanVolumes ==
    /\ plan_pc = "plan"
    /\ planned_dumps' = PlanDumps(root_files, analyzed_folders,
                                  max_output_files, create_index)
    /\ plan_pc' = "planned"
    /\ UNCHANGED <<max_output_files, create_index, root_files, top_level_scan,
                   analyzed_folders>>
    /\ UNCHANGED <<diskVars, ignVars, runVars, procVars, volVars, matchVars, cdataVars>>

PlanNext == AnalyzeFolders \/ PlanVolumes

SpecPlan == PlanInit /\ [][PlanNext]_vars

(***************************************************************************)
(* SpecIgnore: rule files of at most MaxRuleLines lines in all are loaded  *)
(* by load_all_gitignores, then match_ignore is asked about the paths of   *)
(* the tree.                                                               *)
(***************************************************************************)
RECURSIVE LineSeqs(_, _)
\* the rule files of at most n lines drawn from pool
LineSeqs(pool, n) ==
    IF n = 0 THEN {<<>>}
    ELSE LineSeqs(pool, n - 1)
         \cup {Append(ls, l) :
                  ls \in {x \in LineSeqs(pool, n - 1) : Len(x) = n - 1},
                  l \in pool}

RECURSIVE RuleFileSets(_, _, _)
\* the contents of the first k places of RuleFileLocs, n lines at most in all
RuleFileSets(pool, k, n) ==
    IF k = 0 THEN {<<>>}
    ELSE UNION {{Append(rest, ls) :
                    rest \in RuleFileSets(pool, k - 1, n - Len(ls))} :
                ls \in LineSeqs(pool, n)}

IgnoreInit ==
    /\ rule_files \in RuleFileSets(LinePool, Len(RuleFileLocs), MaxRuleLines)
    /\ rule_read_fail = AllReadable
    /\ listing_rev \in BOOLEAN
    /\ custom_excludes = {}
    /\ exclusion_mode = "Fully Exclude"
    /\ ignore_txt = FALSE
    /\ ignore_md = FALSE
    /\ use_smartignore_exclude = FALSE
    /\ smartignore_patterns = <<>>
    /\ rules = <<>>
    /\ ign_pc = "fresh"
    /\ query = <<>>
    /\ verdict = FALSE
    /\ PlanIdle
    /\ RunIdle
    /\ ProcIdle
    /\ VolIdle
    /\ MatchIdle
    /\ CdataIdle

\* DumpWorker.__init__ line 146: self.gitignore.load_all_gitignores()
LoadRules ==
    /\ ign_pc = "fresh"
    /\ rules' = load_all_gitignores
    /\ ign_pc' = "loaded"
    /\ UNCHANGED <<smartignore_patterns, query, verdict, diskVars, planVars, runVars, procVars, volVars, matchVars, cdataVars>>

\* a call match_ignore(path, is_dir) on a path of the tree
AskMatchIgnore ==
    /\ ign_pc = "loaded"
    /\ query = <<>>
    /\ \E path \in Paths :
          /\ query' = <<path, IsDir(path)>>
          /\ verdict' = match_ignore(path, IsDir(path))
    /\ UNCHANGED <<smartignore_patterns, rules, ign_pc, diskVars, planVars, runVars, procVars, volVars, matchVars, cdataVars>>

IgnoreNext == LoadRules \/ AskMatchIgnore

SpecIgnore == IgnoreInit /\ [][IgnoreNext]_vars

(***************************************************************************)
(* SpecCollect: a worker is constructed over the tree (SmartIgnore.load,   *)
(* then load_all_gitignores), run() collects the files (phase 1), ranks    *)
(* the folders and plans the volumes.                                      *)
(***************************************************************************)

\* the lines a rule file holds in SpecCollect; the rule file of /r/s2 stays
\* absent there
CollectLinePool ==
    {<<"b", "/">>, <<"*", ".", "t", "x", "t">>, <<"!", "x", ".", "t", "x", "t">>,
     N_a_md}

\* the settings of a run: <<custom_excludes, exclusion_mode>>
ExclusionSettings ==
    {<<{}, "Fully Exclude">>, <<{D_s_b}, "Fully Exclude">>,
     <<{D_s_b}, "List Folders & Files Names">>}

\* <<ignore_txt, ignore_md>>
ExtensionSettings == {<<FALSE, FALSE>>, <<TRUE, FALSE>>, <<FALSE, TRUE>>}

CollectInit ==
    /\ \E rf \in RuleFileSets(CollectLinePool, Len(RuleFileLocs) - 1,
                               MaxCollectLines) :
          rule_files = Append(rf, <<>>)
    /\ rule_read_fail = AllReadable
    /\ listing_rev \in BOOLEAN
    /\ \E e \in ExclusionSettings :
          custom_excludes = e[1] /\ exclusion_mode = e[2]
    /\ \E x \in ExtensionSettings : ignore_txt = x[1] /\ ignore_md = x[2]
    /\ use_smartignore_exclude \in BOOLEAN
    /\ smartignore_patterns = <<>>
    /\ rules = <<>>
    /\ ign_pc = "new"
    /\ query = <<>>
    /\ verdict = FALSE
    /\ max_output_files = ClampMaxOutputFiles(MaxOut)
    /\ create_index = FALSE
    /\ root_files = <<>>
    /\ top_level_scan = <<>>
    /\ analyzed_folders = <<>>
    /\ planned_dumps = <<>>
    /\ plan_pc = "collect"
    /\ RunIdle
    /\ ProcIdle
    /\ VolIdle
    /\ MatchIdle
    /\ CdataIdle

\* DumpWorker.__init__ lines 124-133: self.smartignore.load()
LoadSmartIgnore ==
    /\ ign_pc = "new"
    /\ smartignore_patterns' = SmartIgnore_load
    /\ ign_pc' = "fresh"
    /\ UNCHANGED <<rules, query, verdict, diskVars, planVars, runVars, procVars, volVars, matchVars, cdataVars>>

\* DumpWorker.run lines 306-351: phase 1, the files of the root and the scan
\* of every top-level folder kept
CollectPhase ==
    /\ ign_pc = "loaded"
    /\ plan_pc = "collect"
    /\ root_files' = collect_files_in_folder(RootDir, FALSE)
    /\ top_level_scan' = [i \in 1..Len(TopLevelItems) |->
                             ScanFolder(TopLevelItems[i])]
    /\ plan_pc' = "scan"
    /\ UNCHANGED <<max_output_files, create_index, analyzed_folders,
                   planned_dumps>>
    /\ UNCHANGED <<diskVars, ignVars, runVars, procVars, volVars, matchVars, cdataVars>>

CollectNext ==
    LoadSmartIgnore \/ LoadRules \/ CollectPhase \/ AnalyzeFolders \/ PlanVolumes

SpecCollect == CollectInit /\ [][CollectNext]_vars

(***************************************************************************)
(* SpecRun: one run of DumpWorker.run() on a constructed worker, cut at    *)
(* its polls of the cancellation flag, while the user may set the flag at  *)
(* any moment.  The output directory is new and no I/O call fails; the     *)
(* upload helper, when asked for, is the single upload document.           *)
(***************************************************************************)

\* mutant of check_stop: the poll never sees the flag
check_stop_blind == FALSE

\* DumpWorker.check_stop(): it raises InterruptedError
check_stop == stop_event

\* mutant of CaughtAsInterrupted: the first handler of run() never applies
CaughtAsInterruptedNever(exc) == FALSE

\* run() line 517: `except InterruptedError` takes the exception
CaughtAsInterrupted(exc) == exc = "InterruptedError"

\* dump["filename"] of a planned volume (lines 370, 380, 396, 411): the
\* pattern with the index and the name of what the volume holds
Filename(dump) == <<dump.idx, dump.kind, dump.name>>

\* dump["short_title"]: "Root", the name of the folder, "Others"
ShortTitle(dump) == <<dump.kind, dump.name>>

\* self.instructions_filename
InstructionsFilename == <<0, "INSTRUCTIONS", 0>>

\* mutant of NavContext: planned_dumps[i - 1] is taken for the first volume
\* too, where the index -1 of the list is its last element
NavContextWrapAround(i) ==
    LET n == Len(planned_dumps)
        prev_d == planned_dumps[IF i > 1 THEN i - 1 ELSE n]
    IN  [home_file |-> InstructionsFilename,
         prev_file |-> Filename(prev_d),
         next_file |-> IF i < n THEN Filename(planned_dumps[i + 1]) ELSE <<>>,
         prev_title |-> ShortTitle(prev_d),
         next_title |-> IF i < n THEN ShortTitle(planned_dumps[i + 1]) ELSE <<>>,
         short_title |-> ShortTitle(planned_dumps[i])]

\* run() lines 426-436: nav of the i-th planned volume (None and "" are <<>>)
NavContext(i) ==
    LET n == Len(planned_dumps)
    IN  [home_file |-> InstructionsFilename,
         prev_file |-> IF i > 1 THEN Filename(planned_dumps[i - 1]) ELSE <<>>,
         next_file |-> IF i < n THEN Filename(planned_dumps[i + 1]) ELSE <<>>,
         prev_title |-> IF i > 1 THEN ShortTitle(planned_dumps[i - 1]) ELSE <<>>,
         next_title |-> IF i < n THEN ShortTitle(planned_dumps[i + 1]) ELSE <<>>,
         short_title |-> ShortTitle(planned_dumps[i])]

\* one line of the meta section of a volume
NavLine(key, value) == [key |-> key, value |-> value]

\* a line written only `if nav_context.get(...)`
NavLineIfTruthy(key, value) ==
    IF value # <<>> THEN <<NavLine(key, value)>> ELSE <<>>

\* write_volume_text lines 78-86, write_volume_xml lines 145-154: the
\* navigation lines of a volume, in the order they are written
NavLines(nav, format) ==
    NavLineIfTruthy("home", nav.home_file)
    \o (IF format = "xml"
        THEN NavLineIfTruthy("next_volume", nav.next_file)
             \o NavLineIfTruthy("prev_volume", nav.prev_file)
        ELSE NavLineIfTruthy("prev_volume", nav.prev_file)
             \o NavLineIfTruthy("next_volume", nav.next_file))
    \o <<NavLine("prev_title", nav.prev_title),
         NavLine("next_title", nav.next_title),
         NavLine("short_title", nav.short_title)>>

\* the files of the output directory: the volume of planned_dumps[i] and its
\* .xml.txt companion, the master index and its companion, the single upload
\* document, the matched-paths audit file, the instructions document
OutFile(kind, i, nav) == [kind |-> kind, idx |-> i, nav |-> nav]
VolumeFile(i) == OutFile("volume", i, NavLines(NavContext(i), output_format))
CompanionFile(i) == OutFile("companion", i, <<>>)
IndexFile == OutFile("index", 0, <<>>)
IndexCompanionFile == OutFile("index_companion", 0, <<>>)
UploadFile == OutFile("upload", 0, <<>>)
MatchedPathsFile == OutFile("matched_paths", 0, <<>>)
InstructionsFile == OutFile("instructions", 0, <<>>)

\* path.open("w") is executed by the step when `opens`
Opens(opens, file) ==
    out_files' = IF opens THEN Append(out_files, file) ELSE out_files

\* run() lines 517-522: an exception reaches the handlers at the top of run()
TopHandler(exc) ==
    /\ run_pc' = "returned"
    /\ IF CaughtAsInterrupted(exc)
       THEN /\ log' = Append(log, "!!! PROCESS STOPPED BY USER !!!")
            /\ UNCHANGED last_exception_traceback
       ELSE /\ log' = Append(log, "ERROR: Unhandled exception in DumpWorker.")
            /\ last_exception_traceback' = exc
    /\ UNCHANGED <<vol_i, step_k, chunk_k, generated_meta>>

\* what a step of run() leaves alone besides the state of the run
RunFrame == UNCHANGED <<stop_event, runConf, diskVars, ignVars, procVars, volVars, matchVars, cdataVars>>

\* the plans of at most n volumes, each of 1..MaxRunFiles files
RECURSIVE RunPlans(_)
RunPlans(n) ==
    IF n = 0 THEN {<<>>}
    ELSE RunPlans(n - 1)
         \cup {Append(plan, FolderVolume([name |-> n, files |-> FolderFiles(n, k)], n)) :
                  plan \in {x \in RunPlans(n - 1) : Len(x) = n - 1},
                  k \in 1..MaxRunFiles}

\* len(files) of the volume being written
VolumeFileCount == Len(planned_dumps[vol_i].files)

RunInit ==
    /\ stop_event = FALSE
    /\ run_pc = "start"
    /\ vol_i = 0
    /\ step_k = 0
    /\ chunk_k = 0
    /\ log = <<>>
    /\ generated_meta = <<>>
    /\ out_files = <<>>
    /\ last_exception_traceback = "None"
    /\ output_format \in {"text", "xml"}
    /\ create_single_upload_doc \in BOOLEAN
    /\ create_smartignore_paths_index \in BOOLEAN
    /\ create_index \in BOOLEAN
    /\ max_output_files = ClampMaxOutputFiles(MaxRunVolumes + 2)
    /\ root_files = <<>>
    /\ top_level_scan = <<>>
    /\ analyzed_folders = <<>>
    /\ planned_dumps = <<>>
    /\ plan_pc = "idle"
    /\ DiskIdle
    /\ IgnIdle
    /\ ProcIdle
    /\ VolIdle
    /\ MatchIdle
    /\ CdataIdle

\* the user presses Stop: stop_event.set(); nothing clears the flag
SetStop ==
    /\ run_pc # "returned"
    /\ ~stop_event
    /\ stop_event' = TRUE
    /\ UNCHANGED <<run_pc, vol_i, step_k, chunk_k, log, generated_meta,
                   out_files, last_exception_traceback, runConf>>
    /\ UNCHANGED <<planVars, diskVars, ignVars, procVars, volVars, matchVars, cdataVars>>

\* run() lines 286-307: the output folder, then the poll that opens phase 1
RunStart ==
    /\ run_pc = "start"
    /\ IF check_stop THEN TopHandler("InterruptedError")
       ELSE /\ run_pc' = "collect"
            /\ UNCHANGED <<vol_i, step_k, chunk_k, log, generated_meta,
                           last_exception_traceback>>
    /\ UNCHANGED out_files
    /\ RunFrame
    /\ UNCHANGED planVars

\* the polls of phase 1: file_collection.py lines 44 and 85, run() lines 313
\* and 344, one for each directory, file and top-level entry
ScanPoll ==
    /\ run_pc = "collect"
    /\ IF check_stop THEN TopHandler("InterruptedError")
       ELSE /\ \/ /\ step_k < MaxScanPolls
                  /\ step_k' = step_k + 1
                  /\ run_pc' = "collect"
               \/ /\ step_k' = 0
                  /\ run_pc' = "plan"
            /\ UNCHANGED <<vol_i, chunk_k, log, generated_meta,
                           last_exception_traceback>>
    /\ UNCHANGED out_files
    /\ RunFrame
    /\ UNCHANGED planVars

\* run() lines 353-422: ranking and planning hold no poll
RunPlan ==
    /\ run_pc = "plan"
    /\ planned_dumps' \in RunPlans(MaxRunVolumes)
    /\ vol_i' = 1
    /\ run_pc' = "volume_head"
    /\ UNCHANGED <<step_k, chunk_k, log, generated_meta, last_exception_traceback>>
    /\ UNCHANGED out_files
    /\ RunFrame
    /\ UNCHANGED <<max_output_files, create_index, root_files, top_level_scan,
                   analyzed_folders, plan_pc>>

\* run() lines 424-425: the head of the write loop and its poll
VolumeHead ==
    /\ run_pc = "volume_head"
    /\ IF vol_i > Len(planned_dumps)
       THEN /\ run_pc' = "upload"
            /\ UNCHANGED <<vol_i, step_k, chunk_k, log, generated_meta,
                           last_exception_traceback>>
       ELSE IF check_stop THEN TopHandler("InterruptedError")
       ELSE /\ run_pc' = "writer_entry"
            /\ UNCHANGED <<vol_i, step_k, chunk_k, log, generated_meta,
                           last_exception_traceback>>
    /\ UNCHANGED out_files
    /\ RunFrame
    /\ UNCHANGED planVars

\* write_volume_text line 58 / DumpWorker.write_volume_xml line 258: the poll
\* at the entry of the writer, outside every try
WriterEntry ==
    /\ run_pc = "writer_entry"
    /\ IF check_stop THEN TopHandler("InterruptedError")
       ELSE /\ run_pc' = "gather"
            /\ step_k' = 1
            /\ UNCHANGED <<vol_i, chunk_k, log, generated_meta,
                           last_exception_traceback>>
    /\ UNCHANGED out_files
    /\ RunFrame
    /\ UNCHANGED planVars

\* _collect_file_data_parallel line 41: the poll for each result of the pool
GatherPoll ==
    /\ run_pc = "gather"
    /\ IF check_stop THEN TopHandler("InterruptedError")
       ELSE /\ IF step_k < VolumeFileCount
               THEN step_k' = step_k + 1 /\ run_pc' = "gather"
               ELSE /\ step_k' = 1
                    /\ run_pc' = (IF output_format = "xml" THEN "xml_entry"
                                  ELSE "render_index")
            /\ UNCHANGED <<vol_i, chunk_k, log, generated_meta,
                           last_exception_traceback>>
    \* write_volume_text line 69: the volume is opened once the results are in
    /\ Opens(~check_stop /\ step_k >= VolumeFileCount /\ output_format # "xml", VolumeFile(vol_i))
    /\ RunFrame
    /\ UNCHANGED planVars

\* the writer returned: run() lines 438-440, then the next volume
VolumeDone(meta) ==
    /\ generated_meta' = (IF meta THEN Append(generated_meta, vol_i)
                          ELSE generated_meta)
    /\ vol_i' = vol_i + 1
    /\ step_k' = 0
    /\ chunk_k' = 0
    /\ run_pc' = "volume_head"

\* write_volume_text lines 170-172: `except Exception` of the writer takes the
\* InterruptedError of a poll inside its try block
TextWriterSwallows ==
    /\ log' = Append(log, "Error writing TEXT file")
    /\ VolumeDone(FALSE)
    /\ UNCHANGED last_exception_traceback

\* write_volume_text line 90: the poll for each row of FILE_INDEX
RenderIndexPoll ==
    /\ run_pc = "render_index"
    /\ IF check_stop THEN TextWriterSwallows
       ELSE /\ IF step_k < VolumeFileCount
               THEN step_k' = step_k + 1 /\ run_pc' = "render_index"
               ELSE step_k' = 1 /\ run_pc' = "render_body"
            /\ UNCHANGED <<vol_i, chunk_k, log, generated_meta,
                           last_exception_traceback>>
    /\ UNCHANGED out_files
    /\ RunFrame
    /\ UNCHANGED planVars

\* write_volume_text lines 111-160: on to the next file body, or the meta
NextBody ==
    IF step_k < VolumeFileCount
    THEN /\ step_k' = step_k + 1
         /\ chunk_k' = 0
         /\ run_pc' = "render_body"
         /\ UNCHANGED <<vol_i, generated_meta>>
    ELSE VolumeDone(TRUE)

\* write_volume_text line 112: the poll for each file body; the file holds
\* chunks or it does not
RenderBodyPoll ==
    /\ run_pc = "render_body"
    /\ IF check_stop THEN TextWriterSwallows
       ELSE /\ \/ /\ run_pc' = "render_chunk"
                  /\ chunk_k' = 1
                  /\ UNCHANGED <<vol_i, step_k, generated_meta>>
               \/ NextBody
            /\ UNCHANGED <<log, last_exception_traceback>>
    /\ UNCHANGED out_files
    /\ RunFrame
    /\ UNCHANGED planVars

\* write_volume_text line 134: the poll for each chunk of a file
RenderChunkPoll ==
    /\ run_pc = "render_chunk"
    /\ IF check_stop THEN TextWriterSwallows
       ELSE /\ \/ /\ chunk_k < MaxRunChunks
                  /\ chunk_k' = chunk_k + 1
                  /\ UNCHANGED <<run_pc, vol_i, step_k, generated_meta>>
               \/ NextBody
            /\ UNCHANGED <<log, last_exception_traceback>>
    /\ UNCHANGED out_files
    /\ RunFrame
    /\ UNCHANGED planVars

\* writers_xml.write_volume_xml line 128: its poll outside the try block; the
\* XML itself is rendered without a poll (lines 131-196)
XmlEntry ==
    /\ run_pc = "xml_entry"
    /\ IF check_stop THEN TopHandler("InterruptedError")
       ELSE /\ run_pc' = "companion"
            /\ step_k' = 0
            /\ UNCHANGED <<vol_i, chunk_k, log, generated_meta,
                           last_exception_traceback>>
    \* write_volume_xml line 134
    /\ Opens(~check_stop, VolumeFile(vol_i))
    /\ RunFrame
    /\ UNCHANGED planVars

\* maybe_write_txt_companion lines 67-79: the poll of line 68 (step_k = 0),
\* then one poll of line 72 for each block read and for the end of the file;
\* `except Exception` takes the InterruptedError and the caller goes on
CompanionCopy(done) ==
    IF check_stop
    THEN /\ log' = Append(log, "(warn) Could not write txt companion")
         /\ done
    ELSE /\ \/ /\ step_k <= MaxRunChunks
               /\ step_k' = step_k + 1
               /\ UNCHANGED <<run_pc, vol_i, chunk_k, generated_meta>>
            \/ /\ step_k >= 1
               /\ done
         /\ UNCHANGED log

\* write_volume_xml lines 201-212: the companion of a volume, then its meta
CompanionPoll ==
    /\ run_pc = "companion"
    /\ CompanionCopy(VolumeDone(TRUE))
    /\ UNCHANGED last_exception_traceback
    \* maybe_write_txt_companion line 70
    /\ Opens(~check_stop /\ step_k = 0, CompanionFile(vol_i))
    /\ RunFrame
    /\ UNCHANGED planVars

\* run() lines 447-466: the upload helper, with the poll of line 448 and the
\* early return of write_single_upload_doc (bundles.py line 183)
UploadStart ==
    /\ run_pc = "upload"
    /\ IF ~create_single_upload_doc
       THEN /\ run_pc' = "index"
            /\ UNCHANGED <<vol_i, step_k, chunk_k, log, generated_meta,
                           last_exception_traceback>>
       ELSE IF check_stop THEN TopHandler("InterruptedError")
       ELSE /\ run_pc' = (IF generated_meta = <<>> THEN "index" ELSE "upload_entry")
            /\ UNCHANGED <<vol_i, step_k, chunk_k, log, generated_meta,
                           last_exception_traceback>>
    /\ UNCHANGED out_files
    /\ RunFrame
    /\ UNCHANGED planVars

\* bundles.py line 186: the poll of write_single_upload_doc outside its try
UploadEntry ==
    /\ run_pc = "upload_entry"
    /\ IF check_stop THEN TopHandler("InterruptedError")
       ELSE /\ run_pc' = "upload_copy"
            /\ step_k' = 1
            /\ chunk_k' = 0
            /\ UNCHANGED <<vol_i, log, generated_meta, last_exception_traceback>>
    \* bundles.py line 199
    /\ Opens(~check_stop, UploadFile)
    /\ RunFrame
    /\ UNCHANGED planVars

\* bundles.py lines 199-221: the poll of line 205 for each volume
\* (chunk_k = 0) and of line 213 for each of its lines, inside the try block
\* whose `except Exception` takes the InterruptedError
UploadCopyPoll ==
    /\ run_pc = "upload_copy"
    /\ IF check_stop
       THEN /\ log' = Append(log, "(warn) Could not create single upload doc")
            /\ run_pc' = "index"
            /\ step_k' = 0
            /\ chunk_k' = 0
       ELSE /\ \/ /\ chunk_k < MaxRunChunks
                  /\ chunk_k' = chunk_k + 1
                  /\ UNCHANGED <<run_pc, step_k>>
               \/ IF step_k < Len(generated_meta)
                  THEN step_k' = step_k + 1 /\ chunk_k' = 0 /\ UNCHANGED run_pc
                  ELSE step_k' = 0 /\ chunk_k' = 0 /\ run_pc' = "index"
            /\ UNCHANGED log
    /\ UNCHANGED <<vol_i, generated_meta, last_exception_traceback>>
    /\ UNCHANGED out_files
    /\ RunFrame
    /\ UNCHANGED planVars

\* run() lines 469-476 and write_index: the index is written without a poll;
\* in XML mode its .xml.txt companion follows (index.py line 77)
WriteIndex ==
    /\ run_pc = "index"
    /\ run_pc' = (IF create_index /\ output_format = "xml" THEN "index_companion"
                  ELSE "smartidx")
    /\ step_k' = 0
    /\ UNCHANGED <<vol_i, chunk_k, log, generated_meta, last_exception_traceback>>
    \* index.py lines 51, 81
    /\ Opens(create_index, IndexFile)
    /\ RunFrame
    /\ UNCHANGED planVars

\* DumpWorker._maybe_write_txt_companion for the index
IndexCompanionPoll ==
    /\ run_pc = "index_companion"
    /\ CompanionCopy(/\ run_pc' = "smartidx"
                     /\ step_k' = 0
                     /\ UNCHANGED <<vol_i, chunk_k, generated_meta>>)
    /\ UNCHANGED last_exception_traceback
    \* maybe_write_txt_companion line 70
    /\ Opens(~check_stop /\ step_k = 0, IndexCompanionFile)
    /\ RunFrame
    /\ UNCHANGED planVars

\* run() line 479, SmartIgnore.write_paths_index lines 151-154: the poll is
\* made when the matched-paths file is asked for
SmartIndex ==
    /\ run_pc = "smartidx"
    /\ IF create_smartignore_paths_index /\ check_stop
       THEN TopHandler("InterruptedError")
       ELSE /\ run_pc' = "instructions"
            /\ UNCHANGED <<vol_i, step_k, chunk_k, log, generated_meta,
                           last_exception_traceback>>
    \* smartignore.py line 157
    /\ Opens(create_smartignore_paths_index /\ ~check_stop, MatchedPathsFile)
    /\ RunFrame
    /\ UNCHANGED planVars

\* InstructionsWriter.write line 38: the last poll of a run
InstructionsPoll ==
    /\ run_pc = "instructions"
    /\ IF check_stop THEN TopHandler("InterruptedError")
       ELSE /\ run_pc' = "finish"
            /\ UNCHANGED <<vol_i, step_k, chunk_k, log, generated_meta,
                           last_exception_traceback>>
    /\ UNCHANGED out_files
    /\ RunFrame
    /\ UNCHANGED planVars

\* InstructionsWriter.write lines 40-151, run() lines 502-515: the
\* instructions, the exclusion report and the SUCCESS line hold no poll
Finish ==
    /\ run_pc = "finish"
    /\ log' = Append(log, "SUCCESS! Completed in:")
    /\ run_pc' = "returned"
    /\ UNCHANGED <<vol_i, step_k, chunk_k, generated_meta,
                   last_exception_traceback>>
    \* instructions.py line 148
    /\ Opens(TRUE, InstructionsFile)
    /\ RunFrame
    /\ UNCHANGED planVars

\* the steps of the thread that executes run()
RunStep ==
    \/ RunStart \/ ScanPoll \/ RunPlan \/ VolumeHead \/ WriterEntry
    \/ GatherPoll \/ RenderIndexPoll \/ RenderBodyPoll \/ RenderChunkPoll
    \/ XmlEntry \/ CompanionPoll \/ UploadStart \/ UploadEntry
    \/ UploadCopyPoll \/ WriteIndex \/ IndexCompanionPoll \/ SmartIndex
    \/ InstructionsPoll \/ Finish

RunNext == SetStop \/ RunStep

\* the thread of run() keeps running: a step that stays possible is taken
SpecRun == RunInit /\ [][RunNext]_vars /\ WF_vars(RunStep)

(***************************************************************************)
(* SpecProcess: process_file_content is called twice on one file of the    *)
(* tree, which holds at most MaxFileLen bytes and does not change.         *)
(***************************************************************************)

RECURSIVE ByteSeqs(_)
\* the contents of at most n bytes
ByteSeqs(n) ==
    IF n = 0 THEN {<<>>}
    ELSE ByteSeqs(n - 1)
         \cup {Append(b, c) : b \in {x \in ByteSeqs(n - 1) : Len(x) = n - 1},
                              c \in {"a", "\n", "\r"}}

\* <<custom_excludes, exclusion_mode>> of a worker that processes files
ProcessSettings ==
    {<<{}, "Fully Exclude">>, <<{D_s}, "List Folders & Files Names">>,
     <<{D_s}, "Index w/ Metadata (Skip Content)">>}

ProcessInit ==
    /\ proc_file \in {<<N_r, N_s, N_m_py>>, <<N_r, N_s, N_a_md>>}
    /\ file_bytes \in ByteSeqs(MaxFileLen)
    /\ file_readable \in BOOLEAN
    /\ proc_pc = "new"
    /\ first_record = <<>>
    /\ second_record = <<>>
    /\ reads = 0
    /\ rule_files = [i \in DOMAIN RuleFileLocs |-> <<>>]
    /\ rule_read_fail = AllReadable
    /\ listing_rev = FALSE
    /\ \E e \in ProcessSettings : custom_excludes = e[1] /\ exclusion_mode = e[2]
    /\ ignore_txt = FALSE
    /\ ignore_md = FALSE
    /\ use_smartignore_exclude = FALSE
    /\ PlanIdle
    /\ IgnIdle
    /\ RunIdle
    /\ VolIdle
    /\ MatchIdle
    /\ CdataIdle

\* a worker of the pool calls process_file_content(f)
ProcessFile ==
    /\ proc_pc = "new"
    /\ first_record' = process_file_content(proc_file)
    /\ reads' = reads + (IF ReadsContent(proc_file) THEN 1 ELSE 0)
    /\ proc_pc' = "once"
    /\ UNCHANGED <<proc_file, file_bytes, file_readable, second_record>>
    /\ UNCHANGED <<planVars, diskVars, ignVars, runVars, volVars, matchVars, cdataVars>>

\* the unchanged file is processed once more
ProcessAgain ==
    /\ proc_pc = "once"
    /\ second_record' = process_file_content(proc_file)
    /\ reads' = reads + (IF ReadsContent(proc_file) THEN 1 ELSE 0)
    /\ proc_pc' = "twice"
    /\ UNCHANGED <<proc_file, file_bytes, file_readable, first_record>>
    /\ UNCHANGED <<planVars, diskVars, ignVars, runVars, volVars, matchVars, cdataVars>>

ProcessNext == ProcessFile \/ ProcessAgain

SpecProcess == ProcessInit /\ [][ProcessNext]_vars

(***************************************************************************)
(* SpecVolume: one call of write_volume on a planned volume of at most     *)
(* MaxVolFiles files, with the workers of its pool completing in any order *)
(* and the stop flag set at any moment.                                    *)
(***************************************************************************)

\* the files a planned volume is made of
VolFilePool ==
    {<<N_r, N_a_md>>, <<N_r, N_x_txt>>, <<N_r, N_s, N_m_py>>,
     <<N_r, N_s, N_b, N_c, N_m_py>>, <<N_r, N_s2, N_a_md>>,
     <<N_r, N_s2, N_Fact>>}

\* the file lists run() plans (lines 368-419): the files of the root for the
\* ROOT volume, files from below top-level folders for the others
PlannedTogether(fs) ==
    \/ \A i \in DOMAIN fs : Len(fs[i]) = Len(RootDir) + 1
    \/ \A i \in DOMAIN fs : Len(fs[i]) > Len(RootDir) + 1

RECURSIVE VolPlans(_)
\* the lists of at most n distinct files of the pool, in any order
VolPlans(n) ==
    IF n = 0 THEN {<<>>}
    ELSE VolPlans(n - 1)
         \cup {Append(fs, f) : fs \in {x \in VolPlans(n - 1) : Len(x) = n - 1},
                               f \in VolFilePool}

VolumeInit ==
    /\ vol_plan \in {fs \in VolPlans(MaxVolFiles) :
                        /\ \A i, j \in DOMAIN fs : i # j => fs[i] # fs[j]
                        /\ PlannedTogether(fs)}
    /\ unreadable \in {u \in SUBSET Range(vol_plan) : Cardinality(u) <= 2}
    /\ vol_files = <<>>
    /\ vol_pc = "new"
    /\ worker_results = <<>>
    /\ completion = <<>>
    /\ vol_k = 0
    /\ file_data_list = <<>>
    /\ vol_index = <<>>
    /\ vol_bodies = <<>>
    /\ vol_meta = [returned |-> "nothing"]
    /\ stop_event = FALSE
    /\ run_pc = "idle"
    /\ vol_i = 0
    /\ step_k = 0
    /\ chunk_k = 0
    /\ log = <<>>
    /\ generated_meta = <<>>
    /\ out_files = <<>>
    /\ last_exception_traceback = "None"
    /\ output_format \in {"text", "xml"}
    /\ create_single_upload_doc = FALSE
    /\ create_smartignore_paths_index = FALSE
    /\ PlanIdle
    /\ DiskIdle
    /\ IgnIdle
    /\ ProcIdle
    /\ MatchIdle
    /\ CdataIdle

\* what every action of the writer leaves alone
VolumeFrame ==
    /\ UNCHANGED <<vol_plan, unreadable>>
    /\ UNCHANGED <<run_pc, vol_i, step_k, chunk_k, generated_meta, out_files,
                   last_exception_traceback, runConf>>
    /\ UNCHANGED <<planVars, diskVars, ignVars, procVars, matchVars, cdataVars>>

\* the user asks for a stop while the writer is at work
VolumeSetStop ==
    /\ vol_pc \in {"new", "collect"}
    /\ ~stop_event
    /\ stop_event' = TRUE
    /\ UNCHANGED <<vol_files, vol_pc, worker_results, completion, vol_k,
                   file_data_list, vol_index, vol_bodies, vol_meta, log>>
    /\ VolumeFrame

\* write_volume_text lines 57-69, write_volume_xml lines 251-264: no file, the
\* poll, the sort, and the pool is handed the files
VolumeEntry ==
    /\ vol_pc = "new"
    /\ IF vol_plan = <<>>
       THEN /\ vol_pc' = "returned"
            /\ vol_meta' = [returned |-> "None"]
            /\ UNCHANGED <<vol_files, worker_results>>
       ELSE IF check_stop
       THEN /\ vol_pc' = "interrupted"
            /\ UNCHANGED <<vol_files, worker_results, vol_meta>>
       ELSE /\ vol_pc' = "collect"
            /\ vol_files' = SortByLowerPath(vol_plan)
            /\ worker_results' = [i \in DOMAIN vol_plan |-> PendingRecord]
            /\ UNCHANGED vol_meta
    /\ UNCHANGED <<stop_event, completion, vol_k, file_data_list, vol_index,
                   vol_bodies, log>>
    /\ VolumeFrame

\* a worker of the pool returns from _process_file_content(files[i])
WorkerCompletes ==
    /\ vol_pc = "collect"
    /\ \E i \in DOMAIN vol_files :
          /\ worker_results[i] = PendingRecord
          /\ worker_results' =
                [worker_results EXCEPT ![i] = process_file_content(vol_files[i])]
          /\ completion' = Append(completion, i)
    /\ UNCHANGED <<stop_event, vol_files, vol_pc, vol_k, file_data_list,
                   vol_index, vol_bodies, vol_meta, log>>
    /\ VolumeFrame

\* _collect_file_data_parallel lines 40-45: the next result is there, the poll,
\* and the result joins file_data_list unless it is falsy
TakeResult ==
    /\ vol_pc = "collect"
    /\ vol_k < Len(vol_files)
    /\ worker_results[NextResult(vol_k)] # PendingRecord
    /\ IF check_stop
       THEN /\ vol_pc' = "interrupted"
            /\ UNCHANGED <<vol_k, file_data_list>>
       ELSE /\ vol_k' = vol_k + 1
            /\ file_data_list' =
                  IF Falsy(worker_results[NextResult(vol_k)]) THEN file_data_list
                  ELSE Append(file_data_list, worker_results[NextResult(vol_k)])
            /\ UNCHANGED vol_pc
    /\ UNCHANGED <<stop_event, vol_files, worker_results, completion,
                   vol_index, vol_bodies, vol_meta, log>>
    /\ VolumeFrame

\* what the writer puts on disk and returns when no poll stops it
VolumeWritten ==
    /\ vol_index' = [i \in DOMAIN file_data_list |-> file_data_list[i].rel_path]
    /\ vol_bodies' = [i \in DOMAIN file_data_list |-> file_data_list[i].rel_path]
    /\ vol_meta' =
          [returned |-> "meta",
           file_count |-> Len(vol_files),
           contained_files |->
               ContainedFiles([i \in DOMAIN file_data_list |->
                                  file_data_list[i].rel_path])]
    /\ vol_pc' = "returned"
    /\ UNCHANGED log

\* write_volume_text lines 69-172 and writers_xml.write_volume_xml lines
\* 125-216, once every result is taken: the polls, the index entries, the
\* bodies and the meta
RenderVolume ==
    /\ vol_pc = "collect"
    /\ vol_k = Len(vol_files)
    /\ IF output_format = "xml"
       THEN IF check_stop
            THEN /\ vol_pc' = "interrupted"
                 /\ UNCHANGED <<vol_index, vol_bodies, vol_meta, log>>
            ELSE VolumeWritten
       ELSE IF check_stop /\ file_data_list # <<>>
            THEN /\ log' = Append(log, "Error writing TEXT file")
                 /\ vol_meta' = [returned |-> "None"]
                 /\ vol_pc' = "returned"
                 /\ UNCHANGED <<vol_index, vol_bodies>>
            ELSE VolumeWritten
    /\ UNCHANGED <<stop_event, vol_files, worker_results, completion, vol_k,
                   file_data_list>>
    /\ VolumeFrame

VolumeNext ==
    \/ VolumeSetStop
    \/ VolumeEntry
    \/ WorkerCompletes
    \/ TakeResult
    \/ RenderVolume

SpecVolume == VolumeInit /\ [][VolumeNext]_vars

(***************************************************************************)
(* SpecRecord: a worker is constructed over the tree, whose root holds a   *)
(* .smartignore of at most MaxCollectLines lines, and phase 1 of run()     *)
(* hands the paths it meets to the matcher one after the other.            *)
(***************************************************************************)

\* the lines the .smartignore holds in SpecRecord
RecordLinePool ==
    {<<"b", "/">>, <<"*", ".", "t", "x", "t">>, <<"s", "2">>,
     <<"/", "s", "/", "m", ".", "p", "y">>}

RecordInit ==
    /\ \E ls \in LineSeqs(RecordLinePool, MaxCollectLines) :
          rule_files = <<<<>>, ls, <<>>, <<>>>>
    /\ rule_read_fail = AllReadable
    /\ listing_rev \in BOOLEAN
    /\ custom_excludes = {}
    /\ exclusion_mode = "Fully Exclude"
    /\ ignore_txt = FALSE
    /\ ignore_md = FALSE
    /\ use_smartignore_exclude \in BOOLEAN
    /\ smartignore_patterns = <<>>
    /\ rules = <<>>
    /\ ign_pc = "new"
    /\ query = <<>>
    /\ verdict = FALSE
    /\ stop_event = FALSE
    /\ run_pc = "idle"
    /\ vol_i = 0
    /\ step_k = 0
    /\ chunk_k = 0
    /\ log = <<>>
    /\ generated_meta = <<>>
    /\ out_files = <<>>
    /\ last_exception_traceback = "None"
    /\ output_format = "text"
    /\ create_single_upload_doc = FALSE
    /\ create_smartignore_paths_index \in BOOLEAN
    /\ PlanIdle
    /\ ProcIdle
    /\ VolIdle
    /\ MatchIdle
    /\ CdataIdle

\* file_collection.py lines 60-63, 101-104, dump_worker.py lines 323-325:
\* phase 1 hands its next path to the matcher, and a match is recorded
EvaluatePath ==
    /\ ign_pc = "loaded"
    /\ LET evaluations == PhaseEvaluations
       IN  /\ eval_k < Len(evaluations)
           /\ query' = evaluations[eval_k + 1]
    /\ eval_k' = eval_k + 1
    /\ verdict' = SmartIgnore_match(RelPosix(query'[1], RootDir), query'[2])
    /\ IF verdict'
       THEN /\ matched_paths' =
                  RecordedPaths(matched_paths, RelPosix(query'[1], RootDir))
            /\ matched_dirs' =
                  RecordedDirs(matched_dirs, RelPosix(query'[1], RootDir),
                               query'[2])
       ELSE UNCHANGED <<matched_paths, matched_dirs>>
    /\ UNCHANGED <<smartignore_patterns, rules, ign_pc>>
    /\ UNCHANGED <<planVars, diskVars, runVars, procVars, volVars, cdataVars>>

RecordNext == LoadSmartIgnore \/ LoadRules \/ EvaluatePath

SpecRecord == RecordInit /\ [][RecordNext]_vars

(***************************************************************************)
(* SpecCdata: wrap_cdata is applied to a text of at most MaxTextLen        *)
(* characters, as the XML writer does to every content and chunk text.     *)
(***************************************************************************)

RECURSIVE Texts(_)
\* the texts of at most n characters
Texts(n) ==
    IF n = 0 THEN {<<>>}
    ELSE Texts(n - 1)
         \cup {Append(t, c) : t \in {x \in Texts(n - 1) : Len(x) = n - 1},
                              c \in {"]", ">", "a", "\f"}}

CdataInit ==
    /\ cdata_text \in Texts(MaxTextLen)
    /\ cdata_out = <<>>
    /\ PlanIdle
    /\ DiskIdle
    /\ IgnIdle
    /\ RunIdle
    /\ ProcIdle
    /\ VolIdle
    /\ MatchIdle

\* writers_xml.py lines 186, 193: the text goes through wrap_cdata
WrapCdata ==
    /\ cdata_out = <<>>
    /\ cdata_out' = wrap_cdata(cdata_text)
    /\ UNCHANGED cdata_text
    /\ UNCHANGED <<planVars, diskVars, ignVars, runVars, procVars, volVars, matchVars>>

CdataNext == WrapCdata

SpecCdata == CdataInit /\ [][CdataNext]_vars

(***************************************************************************)
(* SpecConstruct: the caller builds the worker, DumpWorker(...), while the *)
(* user may set the flag at any moment.  __init__ loads the .smartignore,  *)
(* then load_all_gitignores walks the tree and polls the flag at every     *)
(* directory; the worker built, the caller goes on to worker.run().        *)
(***************************************************************************)

\* the read failures a tree may show: a .gitignore that exists may raise at
\* open() or after any number of its lines
ReadFailures(files) ==
    {fail \in [DOMAIN RuleFileLocs -> -1..MaxCollectLines] :
        \A i \in DOMAIN RuleFileLocs :
            fail[i] # -1 =>
                /\ RuleFileLocs[i][2] = N_gitignore
                /\ files[i] # <<>>
                /\ fail[i] < Len(files[i])}

\* the log line that closes load_all_gitignores (line 146)
LoadedLine(count, n) ==
    "-> Loaded " \o ToString(count) \o " ignore files ("
    \o ToString(n) \o " rules)."

ConstructInit ==
    /\ \E ls \in LineSeqs(CollectLinePool, MaxCollectLines),
          ls3 \in {<<>>, <<N_m_py>>} :
          rule_files = <<ls, <<>>, ls3, <<>>>>
    /\ rule_read_fail \in ReadFailures(rule_files)
    /\ listing_rev \in BOOLEAN
    /\ \E e \in ExclusionSettings :
          custom_excludes = e[1] /\ exclusion_mode = e[2]
    /\ ignore_txt = FALSE
    /\ ignore_md = FALSE
    /\ use_smartignore_exclude = FALSE
    /\ smartignore_patterns = <<>>
    /\ rules = <<>>
    /\ ign_pc = "new"
    /\ query = <<>>
    /\ verdict = FALSE
    /\ stop_event = FALSE
    /\ run_pc = "unbuilt"
    /\ vol_i = 0
    /\ step_k = 0
    /\ chunk_k = 0
    /\ log = <<>>
    /\ generated_meta = <<>>
    /\ out_files = <<>>
    /\ last_exception_traceback = "None"
    /\ output_format = "text"
    /\ create_single_upload_doc = FALSE
    /\ create_smartignore_paths_index = FALSE
    /\ PlanIdle
    /\ ProcIdle
    /\ VolIdle
    /\ MatchIdle
    /\ CdataIdle

\* what the constructor leaves alone
ConstructFrame ==
    /\ UNCHANGED <<vol_i, chunk_k, generated_meta, out_files,
                   last_exception_traceback, runConf>>
    /\ UNCHANGED <<planVars, diskVars, procVars, volVars, matchVars, cdataVars>>

\* the user presses Stop while the worker is being built
ConstructSetStop ==
    /\ run_pc = "unbuilt"
    /\ ~stop_event
    /\ stop_event' = TRUE
    /\ UNCHANGED <<run_pc, step_k, log, ignVars>>
    /\ ConstructFrame

\* DumpWorker.__init__ lines 124-133: self.smartignore.load(), which polls
\* nothing
ConstructLoadSmartIgnore ==
    /\ run_pc = "unbuilt"
    /\ ign_pc = "new"
    /\ smartignore_patterns' = SmartIgnore_load
    /\ ign_pc' = "fresh"
    /\ UNCHANGED <<stop_event, run_pc, step_k, log, rules, query, verdict>>
    /\ ConstructFrame

\* an InterruptedError leaves __init__ (line 146 stands in no try block) and
\* with it the caller's DumpWorker(...): run(), whose handler logs the stop,
\* is never entered
ConstructorRaises ==
    /\ run_pc' = "escaped"
    /\ ign_pc' = "interrupted"
    /\ UNCHANGED <<rules, step_k>>

\* gitignore_engine.py lines 108-143: one round of the loop of os.walk, the
\* poll and the rule files of the directory
LoadPoll ==
    /\ run_pc = "unbuilt"
    /\ ign_pc = "fresh"
    /\ step_k < Len(LoadWalk(RootDir))
    /\ LET scanning ==
               IF step_k = 0
               THEN <<"-> Scanning for .gitignore and .smartignore files...">>
               ELSE <<>>
           dir == LoadWalk(RootDir)[step_k + 1]
       IN  IF check_stop
           THEN /\ ConstructorRaises
                /\ log' = log \o scanning
           ELSE /\ rules' = rules \o RulesOfDir(dir)
                /\ step_k' = step_k + 1
                /\ log' = log \o scanning
                /\ UNCHANGED <<run_pc, ign_pc>>
    /\ UNCHANGED <<stop_event, smartignore_patterns, query, verdict>>
    /\ ConstructFrame

\* gitignore_engine.py lines 145-147, dump_worker.py lines 148-157: the walk is
\* over, the worker is built and the caller calls run()
ConstructDone ==
    /\ run_pc = "unbuilt"
    /\ ign_pc = "fresh"
    /\ step_k = Len(LoadWalk(RootDir))
    /\ ign_pc' = "loaded"
    /\ run_pc' = "start"
    /\ step_k' = 0
    /\ log' = Append(log, LoadedLine(LoadedCount, Len(rules)))
    /\ UNCHANGED <<stop_event, smartignore_patterns, rules, query, verdict>>
    /\ ConstructFrame

ConstructNext ==
    \/ ConstructSetStop
    \/ ConstructLoadSmartIgnore
    \/ LoadPoll
    \/ ConstructDone

SpecConstruct == ConstructInit /\ [][ConstructNext]_vars

(***************************************************************************)
(* SpecWrite: phases 2 and 3 of run() over a plan of the planner, with no  *)
(* cancellation, where the writer of any volume may fail on an I/O error:  *)
(* at open(), which leaves no file, or at a later write, which leaves the  *)
(* file with what was written so far.                                      *)
(***************************************************************************)

\* f top-level folders of one file each
WriteFolders(f) ==
    [i \in 1..f |-> [name |-> i, files |-> FolderFiles(i, 1), size |-> f - i]]

\* the plans the planner makes of root files or none and of up to MaxFolders
\* folders, under every max_output_files within the bounds
WritePlans ==
    {PlanDumps(FolderFiles(0, k), WriteFolders(f), m, FALSE) :
        k \in 0..1, f \in 0..MaxFolders,
        m \in {ClampMaxOutputFiles(n) : n \in 0..MaxOut}}

WriteInit ==
    /\ stop_event = FALSE
    /\ run_pc = "volume_head"
    /\ vol_i = 1
    /\ step_k = 0
    /\ chunk_k = 0
    /\ log = <<>>
    /\ generated_meta = <<>>
    /\ out_files = <<>>
    /\ last_exception_traceback = "None"
    /\ output_format \in {"text", "xml"}
    /\ create_single_upload_doc = FALSE
    /\ create_smartignore_paths_index = FALSE
    /\ create_index \in BOOLEAN
    /\ max_output_files = ClampMaxOutputFiles(MaxOut)
    /\ root_files = <<>>
    /\ top_level_scan = <<>>
    /\ analyzed_folders = <<>>
    /\ planned_dumps \in WritePlans
    /\ plan_pc = "idle"
    /\ DiskIdle
    /\ IgnIdle
    /\ ProcIdle
    /\ VolIdle
    /\ MatchIdle
    /\ CdataIdle

\* the line the `except Exception` of a volume writer logs
WriterErrorLine ==
    IF output_format = "xml" THEN "Error writing XML file"
    ELSE "Error writing TEXT file"

\* write_volume_text lines 57-172, write_volume_xml lines 125-216: one call
\* of the writer.  It returns the meta, or open() raises (no file), or a
\* write raises before or after the navigation lines; the handler of the
\* writer logs the error and returns None, and removes nothing
WriteVolumeCall ==
    /\ run_pc = "writer_entry"
    /\ \/ /\ out_files' = out_files \o <<VolumeFile(vol_i)>>
                              \o (IF output_format = "xml"
                                  THEN <<CompanionFile(vol_i)>> ELSE <<>>)
          /\ VolumeDone(TRUE)
          /\ UNCHANGED log
       \/ /\ UNCHANGED out_files
          /\ VolumeDone(FALSE)
          /\ log' = Append(log, WriterErrorLine)
       \/ \E written \in {0, Len(VolumeFile(vol_i).nav)} :
             /\ out_files' =
                   Append(out_files,
                          OutFile("volume", vol_i,
                                  Take(VolumeFile(vol_i).nav, written)))
             /\ VolumeDone(FALSE)
             /\ log' = Append(log, WriterErrorLine)
    /\ UNCHANGED last_exception_traceback
    /\ RunFrame
    /\ UNCHANGED planVars

WriteNext ==
    \/ VolumeHead \/ WriteVolumeCall \/ UploadStart \/ WriteIndex
    \/ IndexCompanionPoll \/ SmartIndex \/ InstructionsPoll \/ Finish

SpecWrite == WriteInit /\ [][WriteNext]_vars

(***************************************************************************)
(* Claims about the planner.                                               *)
(***************************************************************************)

\* the files collection returned: the root-level files and the files of every
\* top-level folder
CollectedFiles ==
    Range(root_files)
    \cup UNION {Range(top_level_scan[i].files) : i \in DOMAIN top_level_scan}

\* the places (volume, position) where file f is planned
PlacesOf(f) ==
    {<<v, i>> \in (DOMAIN planned_dumps) \X (1..(MaxFiles * (MaxFolders + 1))) :
        i \in DOMAIN planned_dumps[v].files /\ planned_dumps[v].files[i] = f}

\* S of the specification: max(1, max_output_files - 1 - (1 if index))
SlotBudget ==
    Max(1, max_output_files - 1 - (IF create_index THEN 1 ELSE 0))

\* R: the slots left for folders once the ROOT volume took its slot
SlotsForFolders == SlotBudget - (IF root_files # <<>> THEN 1 ELSE 0)

\* the planned volumes that follow the ROOT volume
NonRootVolumes ==
    SelectSeq(planned_dumps, LAMBDA d : d.kind # "ROOT")

\* C1: volumes + the instructions document + the index (when requested)
\* never exceed max_output_files.
C1_OutputCountWithinMax ==
    plan_pc = "planned" =>
        Len(planned_dumps) + 1 + (IF create_index THEN 1 ELSE 0)
            <= max_output_files

\* C2: the planner never plans more than S volumes.
C2_VolumesWithinSlotBudget ==
    plan_pc = "planned" => Len(planned_dumps) <= SlotBudget

\* C3: every collected file is in the file list of exactly one planned volume,
\* once, and no volume holds a file that was not collected.
C3_EveryFileInExactlyOneVolume ==
    plan_pc = "planned" =>
        /\ \A f \in CollectedFiles : Cardinality(PlacesOf(f)) = 1
        /\ \A v \in DOMAIN planned_dumps :
              Range(planned_dumps[v].files) \subseteq CollectedFiles

\* C3 witness: a plan with a ROOT volume and an OTHERS volume that groups the
\* files of at least two folders.
C3_Witness ==
    /\ plan_pc = "planned"
    /\ \E v \in DOMAIN planned_dumps : planned_dumps[v].kind = "ROOT"
    /\ \E v \in DOMAIN planned_dumps :
          /\ planned_dumps[v].kind = "OTHERS"
          /\ \E a, b \in Range(planned_dumps[v].files) : a[1] # b[1]

\* C4: with R slots left after ROOT and the folders ranked, either all folders
\* fit (one volume each, in ranking order, no OTHERS), or the first R-1 folders
\* get their own volume and every other folder's files are concatenated, in
\* ranking order, into one OTHERS volume planned last.
C4_OwnVolumesThenOthers ==
    plan_pc = "planned" =>
        LET R == SlotsForFolders
            F == Len(analyzed_folders)
            vols == NonRootVolumes
        IN  IF F <= R
            THEN /\ Len(vols) = F
                 /\ \A i \in 1..F :
                       /\ vols[i].kind = "FOLDER"
                       /\ vols[i].name = analyzed_folders[i].name
                       /\ vols[i].files = analyzed_folders[i].files
            ELSE LET own == 1..(R - 1)
                     n == Cardinality(own)
                 IN  /\ Len(vols) = n + 1
                     /\ \A i \in own :
                           /\ vols[i].kind = "FOLDER"
                           /\ vols[i].name = analyzed_folders[i].name
                           /\ vols[i].files = analyzed_folders[i].files
                     /\ vols[n + 1].kind = "OTHERS"
                     /\ planned_dumps[Len(planned_dumps)] = vols[n + 1]
                     /\ vols[n + 1].files =
                           Concat([k \in 1..(F - n) |-> analyzed_folders[n + k].files])

\* C4 witness: three folders of sizes 2 > 1 > 0, R = 2, no root files: the plan
\* is [volume of the largest folder, OTHERS holding the two smaller ones].
C4_Witness ==
    /\ plan_pc = "planned"
    /\ root_files = <<>>
    /\ SlotsForFolders = 2
    /\ Len(analyzed_folders) = 3
    /\ analyzed_folders[1].size = 2
    /\ analyzed_folders[2].size = 1
    /\ analyzed_folders[3].size = 0
    /\ Len(planned_dumps) = 2
    /\ planned_dumps[1].kind = "FOLDER"
    /\ planned_dumps[1].name = analyzed_folders[1].name
    /\ planned_dumps[2].kind = "OTHERS"
    /\ planned_dumps[2].files =
          analyzed_folders[2].files \o analyzed_folders[3].files

(***************************************************************************)
(* Claims about the rule engine.                                           *)
(***************************************************************************)

\* the rules, by position in load order, that apply to the path and match it
Hits(path, is_dir) ==
    {i \in DOMAIN rules :
        rule_applies(rules[i].base, path) /\ match_rule(rules[i], path, is_dir)}

\* the largest member of a non-empty set of numbers
MaxOf(S) == CHOOSE m \in S : \A k \in S : k <= m

\* base a is a proper ancestor of base b
ProperAncestor(a, b) == a # b /\ IsUnder(b, a)

\* s without its i-th element
RemoveAt(s, i) == SubSeq(s, 1, i - 1) \o SubSeq(s, i + 1, Len(s))

\* C5: match_ignore returns the verdict of the last rule in load order that
\* applies and matches (ignored unless that rule is negated, not ignored when
\* no rule matches), and load order puts the rules of an ancestor directory
\* before the rules of a descendant directory.
C5_LastMatchWinsDeeperLater ==
    /\ query # <<>> =>
          LET hits == Hits(query[1], query[2])
          IN  verdict = (IF hits = {} THEN FALSE ELSE ~rules[MaxOf(hits)].neg)
    /\ ign_pc = "loaded" =>
          \A i, j \in DOMAIN rules :
              ProperAncestor(rules[i].base, rules[j].base) => i < j

\* C5 witness: an ignoring rule of a shallower directory and a negating rule
\* of a deeper directory both match the path, and the path is not ignored.
C5_Witness ==
    /\ query # <<>>
    /\ verdict = FALSE
    /\ \E a, b \in Hits(query[1], query[2]) :
          /\ ~rules[a].neg
          /\ rules[b].neg
          /\ ProperAncestor(rules[a].base, rules[b].base)

\* C6: a rule whose scope directory is neither the path nor an ancestor of it
\* never changes the result: match_ignore returns the same with the rule
\* removed.
C6_RuleOutsideScopeHasNoEffect ==
    query # <<>> =>
        \A i \in DOMAIN rules :
            ~IsUnder(query[1], rules[i].base) =>
                match_ignore_with(RemoveAt(rules, i), query[1], query[2]) = verdict

\* C6 witness: the path lies in a sibling whose path string begins with the
\* scope directory's path string (scope /r/s, path /r/s2/a.md), the rule's
\* pattern matches the path's name, and the path is not ignored.
C6_Witness ==
    /\ query # <<>>
    /\ verdict = FALSE
    /\ \E i \in DOMAIN rules :
          /\ ~IsUnder(query[1], rules[i].base)
          /\ StartsWith(PathStr(query[1]), PathStr(rules[i].base))
          /\ ~rules[i].neg
          /\ FnMatch(PathName(query[1]), rules[i].pattern)

\* rule i is a directory-only ignoring rule and the path, relative to the
\* rule's scope directory, equals its pattern or starts with pattern + "/"
DirRuleCovers(i, path) ==
    /\ rules[i].dir_only
    /\ ~rules[i].neg
    /\ IsUnder(path, rules[i].base)
    /\ LET rel == RelPosix(path, rules[i].base)
       IN  rel = rules[i].pattern \/ StartsWith(rel, rules[i].pattern \o <<"/">>)

\* no rule after rule i negates the path
NoLaterOverride(i, path, is_dir) ==
    \A j \in DOMAIN rules :
        j > i => ~(rules[j].neg /\ rule_applies(rules[j].base, path)
                   /\ match_rule(rules[j], path, is_dir))

\* C7 as stated: every path at or beneath the directory of a directory-only
\* rule, files included, is reported as ignored when no later rule overrides.
C7_DirOnlyRuleIgnoresEverythingBeneath ==
    query # <<>> =>
        \A i \in DOMAIN rules :
            (DirRuleCovers(i, query[1]) /\ NoLaterOverride(i, query[1], query[2]))
                => verdict = TRUE

\* C7 amended: for a directory-only rule whose pattern is anchored or holds a
\* "/", every directory at or beneath the pattern's directory is reported as
\* ignored when no later rule overrides.
C7_DirOnlyPathRuleIgnoresDirsBeneath ==
    query # <<>> =>
        \A i \in DOMAIN rules :
            (/\ DirRuleCovers(i, query[1])
             /\ rules[i].anchored \/ HasSlash(rules[i].pattern)
             /\ query[2] = TRUE
             /\ NoLaterOverride(i, query[1], query[2]))
                => verdict = TRUE

\* C7 witness: a sub-directory beneath the directory of an anchored
\* directory-only rule was asked about and is ignored.
C7_Witness ==
    /\ query # <<>>
    /\ query[2] = TRUE
    /\ verdict = TRUE
    /\ \E i \in DOMAIN rules :
          /\ DirRuleCovers(i, query[1])
          /\ rules[i].anchored
          /\ RelPosix(query[1], rules[i].base) # rules[i].pattern
          /\ Hits(query[1], query[2]) = {i}

(***************************************************************************)
(* Claims about collection.                                                *)
(***************************************************************************)

\* every file of the tree, the rule files that exist included
TreeFiles ==
    Files \cup {f \in RuleFilePaths : \E i \in DOMAIN RuleFileLocs :
                   /\ f = Append(RuleFileLocs[i][1], RuleFileLocs[i][2])
                   /\ rule_files[i] # <<>>}

\* the directories from `top` (excluded) down to the directory of f (included)
DirsBetween(top, f) ==
    {d \in Dirs : IsUnder(f, d) /\ d # f /\ IsUnder(d, top) /\ d # top}

\* phase 1 of run() is over
Collected == plan_pc \in {"scan", "plan", "planned"}

\* the rules that come from rule files other than the .smartignore of the root
RulesOfOtherFiles ==
    ParseLines(LinesOf(RootDir, N_gitignore), RootDir)
    \o SelectSeq(rules, LAMBDA r : r.base # RootDir)

\* path p is touched by nothing but, possibly, the .smartignore of the root:
\* no built-in set holds it, no rule of another rule file matches it, it is not
\* custom-excluded and no extension filter removes it
OnlySmartignoreTouches(p) ==
    /\ IF IsDir(p) THEN PathName(p) \notin ALWAYS_IGNORE_DIRS
       ELSE /\ PathName(p) \notin ALWAYS_IGNORE_FILES
            /\ Lower(Suffix(PathName(p))) \notin ALWAYS_IGNORE_EXT
            /\ ~(ignore_txt /\ Lower(Suffix(PathName(p))) = <<".", "t", "x", "t">>)
            /\ ~(ignore_md /\ Lower(Suffix(PathName(p))) = <<".", "m", "d">>)
    /\ \A k \in DOMAIN RulesOfOtherFiles :
          ~(/\ rule_applies(RulesOfOtherFiles[k].base, p)
            /\ match_rule(RulesOfOtherFiles[k], p, IsDir(p)))
    /\ ~is_custom_excluded(p)

\* C8: with use_smartignore_exclude off, a file that only the .smartignore of
\* the root could touch (neither it nor a directory above it is in a built-in
\* set, matched by a rule of another rule file, custom-excluded or filtered by
\* extension) is collected, whatever the .smartignore holds.
C8_SmartignoreOffNeverRemoves ==
    (Collected /\ ~use_smartignore_exclude) =>
        \A f \in TreeFiles :
            (\A p \in {f} \cup DirsBetween(RootDir, f) : OnlySmartignoreTouches(p))
                => f \in CollectedFiles

\* the layers of C9 for a file
FileSurvives(f) ==
    /\ PathName(f) \notin ALWAYS_IGNORE_FILES
    /\ Lower(Suffix(PathName(f))) \notin ALWAYS_IGNORE_EXT
    /\ ~(use_smartignore_exclude /\ SmartIgnore_match(RelPosix(f, RootDir), FALSE))
    /\ ~match_ignore(f, FALSE)
    /\ ~(exclusion_mode = "Fully Exclude" /\ is_custom_excluded(f))
    /\ ~(ignore_txt /\ EndsWith(Lower(PathName(f)), <<".", "t", "x", "t">>))
    /\ ~(ignore_md /\ EndsWith(Lower(PathName(f)), <<".", "m", "d">>))

\* the directory-level checks prune directory d
DirPruned(d) ==
    \/ PathName(d) \in ALWAYS_IGNORE_DIRS
    \/ use_smartignore_exclude /\ SmartIgnore_match(RelPosix(d, RootDir), TRUE)
    \/ match_ignore(d, TRUE)
    \/ exclusion_mode = "Fully Exclude" /\ is_custom_excluded(d)

\* what C9 says collection from `folder` returns
SurvivorsOf(folder, recursive) ==
    {f \in TreeFiles :
        /\ IF recursive THEN IsUnder(f, folder) ELSE Parent(f) = folder
        /\ FileSurvives(f)
        /\ \A d \in DirsBetween(folder, f) : ~DirPruned(d)}

\* the files of the planned volumes
PlannedFiles ==
    UNION {Range(planned_dumps[v].files) : v \in DOMAIN planned_dumps}

\* C9: collection from a folder returns a file iff the file survives every
\* layer and no directory between the folder and the file was pruned; so no
\* volume lists a file under a directory that the rule engine ignores.
C9_CollectedIffSurvivesEveryLayer ==
    /\ Collected =>
          /\ Range(root_files) = SurvivorsOf(RootDir, FALSE)
          /\ \A i \in DOMAIN top_level_scan :
                Range(top_level_scan[i].files)
                    = SurvivorsOf(<<N_r, top_level_scan[i].name>>, TRUE)
    /\ \A f \in PlannedFiles :
          \A d \in DirsBetween(RootDir, f) : ~match_ignore(d, TRUE)

\* the rule "b/" of the rule file of /r/s keeps /r/s/b/x.txt out of every
\* volume while /r/s/m.py is planned
C9_Witness ==
    /\ plan_pc = "planned"
    /\ \E k \in DOMAIN rule_files[3] : rule_files[3][k] = <<"b", "/">>
    /\ match_ignore(D_s_b, TRUE)
    /\ ~match_ignore(<<N_r, N_s, N_b, N_x_txt>>, FALSE)
    /\ <<N_r, N_s, N_b, N_x_txt>> \notin PlannedFiles
    /\ <<N_r, N_s, N_m_py>> \in PlannedFiles

(***************************************************************************)
(* Claims about cancellation.                                              *)
(***************************************************************************)

\* how many times run() logged message m
LogCount(m) == Cardinality({i \in DOMAIN log : log[i] = m})

\* the final poll (InstructionsWriter.write line 38) has been passed
PastFinalPoll == run_pc \in {"finish", "returned"}

\* run() returned after a clean stop
StoppedCleanly ==
    /\ run_pc = "returned"
    /\ LogCount("!!! PROCESS STOPPED BY USER !!!") = 1
    /\ LogCount("SUCCESS! Completed in:") = 0
    /\ last_exception_traceback = "None"

\* C10: once the flag is set before the final poll of run() (nothing clears
\* it), run() returns having logged the user-stopped line exactly once, no
\* SUCCESS line, and with last_exception_traceback still None; run() being
\* over, that state lasts.
C10_StopBeforeFinalPollEndsCleanly ==
    (stop_event /\ ~PastFinalPoll) ~> [](StoppedCleanly)

\* a poll inside a writer's try block was swallowed ("Error writing TEXT
\* file"), a later poll still stopped the run cleanly
C10_Witness ==
    /\ stop_event
    /\ StoppedCleanly
    /\ LogCount("Error writing TEXT file") = 1
    /\ generated_meta # <<>>

\* the error and warning lines a component logs when its `except Exception`
\* takes an exception
FailureLines ==
    {"Error writing TEXT file", "(warn) Could not write txt companion",
     "(warn) Could not create single upload doc"}

\* C11: a cancellation is never reported as a failure: no I/O call fails in
\* a run, so the log of a run never holds an "Error writing ..." or a
\* "(warn) Could not ..." line, whenever the flag is set.
C11_CancellationNeverLoggedAsFailure ==
    \A i \in DOMAIN log : log[i] \notin FailureLines

(***************************************************************************)
(* Claims about file processing.                                           *)
(***************************************************************************)

\* the first call returned a record that holds chunks
Chunked == proc_pc # "new" /\ first_record.chunks # <<>>

\* the texts of the chunks, joined in ascending start_line order (the order
\* of the list)
JoinedChunks == Concat([c \in DOMAIN first_record.chunks |-> first_record.chunks[c].text])

\* C12: for a file that is split into chunks, the chunks' texts joined in
\* ascending start-line order are the content of the file exactly, every line
\* ending (\n, \r\n, \r) and a missing final newline included.
C12_ChunksReproduceContent == Chunked => JoinedChunks = file_bytes

\* the first call returned a source or markdown record
ReadAsText == proc_pc # "new" /\ first_record.kind \in {"source", "markdown"}

\* L, the number of lines the file holds
FileLines == Len(splitlines_keepends(file_bytes))

\* the number of lines chunk c of the first record holds
ChunkLines(c) == Len(splitlines_keepends(first_record.chunks[c].text))

CeilDiv(a, b) == (a + b - 1) \div b

\* the line ranges chunk_lines_keepends gives a text of 1000 lines under the
\* shipped threshold
SHIPPED_CHUNK_MAX_LINES == 350
ThousandLines == [i \in 1..1000 |-> <<"a", "\n">>]
ThousandLineRanges ==
    [c \in DOMAIN ChunkLoop(ThousandLines, 0, 1, SHIPPED_CHUNK_MAX_LINES) |->
        <<ChunkLoop(ThousandLines, 0, 1, SHIPPED_CHUNK_MAX_LINES)[c].start_line,
          ChunkLoop(ThousandLines, 0, 1, SHIPPED_CHUNK_MAX_LINES)[c].end_line>>]

\* the chunks of the first record cover lines 1..FileLines without gap or
\* overlap, ChunkMaxLines lines in each but possibly the last
ChunksCoverLines ==
    /\ first_record.chunks[1].start_line = 1
    /\ first_record.chunks[Len(first_record.chunks)].end_line = FileLines
    /\ Len(first_record.chunks) = CeilDiv(FileLines, ChunkMaxLines)
    /\ \A c \in DOMAIN first_record.chunks :
          /\ ChunkLines(c) = first_record.chunks[c].end_line
                               - first_record.chunks[c].start_line + 1
          /\ ChunkLines(c) \in 1..ChunkMaxLines
          /\ c < Len(first_record.chunks) =>
                /\ ChunkLines(c) = ChunkMaxLines
                /\ first_record.chunks[c + 1].start_line
                     = first_record.chunks[c].end_line + 1

\* C13: a source or markdown file of L lines is chunked exactly when L exceeds
\* the threshold T; its chunks then cover lines 1..L without gap or overlap,
\* each but possibly the last holds T lines, and there are ceil(L/T) of them
\* (1000 lines under T = 350 give 1-350, 351-700, 701-1000).
C13_ChunkedIffOverThreshold ==
    /\ ReadAsText =>
          /\ (first_record.chunks # <<>>) <=> (FileLines > ChunkMaxLines)
          /\ first_record.chunks # <<>> => ChunksCoverLines
    /\ ThousandLineRanges = <<<<1, 350>>, <<351, 700>>, <<701, 1000>>>>

\* a file with "\r" line endings was cut into chunks of which the last is short
C13_Witness ==
    /\ Chunked
    /\ Len(first_record.chunks) >= 2
    /\ ChunkLines(Len(first_record.chunks)) < ChunkMaxLines
    /\ \E i \in DOMAIN file_bytes : file_bytes[i] = "\r"

\* C14: a custom-excluded file gives a name-only record of size 0 in the
\* names mode and a metadata-only record of the true size in the metadata
\* mode; either has empty content and no chunks, and the content of the file
\* is not read.
C14_ExcludedFileNeverRead ==
    (proc_pc # "new" /\ is_custom_excluded(proc_file)) =>
        /\ reads = 0
        /\ first_record.content = <<>>
        /\ first_record.chunks = <<>>
        /\ exclusion_mode = "List Folders & Files Names" =>
              first_record.kind = "list_name_only" /\ first_record.size_bytes = 0
        /\ exclusion_mode = "Index w/ Metadata (Skip Content)" =>
              /\ first_record.kind = "metadata_only"
              /\ first_record.size_bytes = Len(file_bytes)

\* an excluded file that holds bytes was processed twice in the names mode
C14_Witness ==
    /\ proc_pc = "twice"
    /\ is_custom_excluded(proc_file)
    /\ exclusion_mode = "List Folders & Files Names"
    /\ Len(file_bytes) > ChunkMaxLines

\* the ids of the chunks of a record
ChunkIds(record) == [c \in DOMAIN record.chunks |-> record.chunks[c].id]

\* real content was read into the record: a source or markdown file that is
\* not empty
RealContentRead == ReadAsText /\ file_bytes # <<>>

MetaReturned == vol_meta.returned = "meta"

\* C16: every file of a planned volume is represented: whenever the writer
\* returns metadata, the index entries, the file bodies, file_count and
\* contained_files all count as many as the list of the plan, the files that
\* could not be processed (kind error) included.
C16_EveryPlannedFileRepresented ==
    MetaReturned =>
        /\ Len(vol_index) = Len(vol_plan)
        /\ Len(vol_bodies) = Len(vol_plan)
        /\ vol_meta.file_count = Len(vol_plan)
        /\ Len(vol_meta.contained_files) = Len(vol_plan)

\* a volume of several files, one of which could not be read, was written
C16_Witness ==
    /\ MetaReturned
    /\ Len(vol_plan) >= 2
    /\ \E i \in DOMAIN file_data_list : file_data_list[i].kind = "error"

\* the orders of the files of the plan
PlanOrders ==
    {fs \in [DOMAIN vol_plan -> Range(vol_plan)] :
        \A i, j \in DOMAIN fs : i # j => fs[i] # fs[j]}

\* fs is in ascending order of lowercase relative path
Ascending(fs) ==
    \A i, j \in DOMAIN fs :
        i < j => ~StrLess(Lower(RelPosix(fs[j], RootDir)),
                          Lower(RelPosix(fs[i], RootDir)))

\* the path the volume shows for file f
ShownPath(f) == IF f \in unreadable THEN PathName(f) ELSE RelPosix(f, RootDir)

\* C17: in every written volume the index entries and the file bodies are
\* those of the files of the plan in ascending order of lowercase relative
\* path, whatever order the workers completed in.
C17_EntriesInSortedOrder ==
    MetaReturned =>
        \E fs \in PlanOrders :
            /\ Ascending(fs)
            /\ vol_index = [i \in DOMAIN fs |-> ShownPath(fs[i])]
            /\ vol_bodies = [i \in DOMAIN fs |-> ShownPath(fs[i])]

\* a volume was written whose plan was not in sorted order and whose workers
\* completed in another order than that of the files
C17_Witness ==
    /\ MetaReturned
    /\ Len(vol_plan) >= 3
    /\ vol_files # vol_plan
    /\ completion # [i \in DOMAIN completion |-> i]
    /\ <<N_r, N_s2, N_Fact>> \in Range(vol_plan)
    /\ <<N_r, N_s2, N_a_md>> \in Range(vol_plan)

(***************************************************************************)
(* Claims about the record of secondary-ignore matches.                    *)
(***************************************************************************)

\* of the first k paths of evaluations, those that match a pattern,
\* directories only when dirs_only
Matching(evaluations, k, dirs_only) ==
    {RelPosix(evaluations[i][1], RootDir) : i \in
        {j \in 1..k :
            /\ SmartIgnore_match(RelPosix(evaluations[j][1], RootDir),
                                 evaluations[j][2])
            /\ dirs_only => evaluations[j][2]}}

\* what the record holds in a state, given the paths phase 1 hands to the
\* matcher
RecordHolds(evaluations) ==
    /\ create_smartignore_paths_index =>
          /\ Matching(evaluations, eval_k, FALSE) \subseteq matched_paths
          /\ Matching(evaluations, eval_k, TRUE) \subseteq matched_dirs
    /\ ~create_smartignore_paths_index =>
          matched_paths = {} /\ matched_dirs = {}
    /\ matched_dirs \subseteq matched_paths

RecordComplete == eval_k > 0 => RecordHolds(PhaseEvaluations)

\* C18: with recording enabled every path the traversal evaluates and that
\* matches a secondary-ignore pattern is in matched_paths, and in matched_dirs
\* when it is a directory, whether or not exclusion is enabled; with recording
\* disabled both sets stay empty; matched_dirs is a subset of matched_paths,
\* and both sets only grow.
C18_EveryMatchRecorded ==
    /\ [](matched_dirs \subseteq matched_paths)
    /\ []RecordComplete
    /\ [][/\ matched_paths \subseteq matched_paths'
          /\ matched_dirs \subseteq matched_dirs']_vars

\* with exclusion disabled, a directory and a file that match were recorded
C18_Witness ==
    /\ create_smartignore_paths_index
    /\ ~use_smartignore_exclude
    /\ matched_dirs # {}
    /\ matched_paths \ matched_dirs # {}
    /\ eval_k = Len(PhaseEvaluations)

(***************************************************************************)
(* Claims about wrap_cdata.                                                *)
(***************************************************************************)

\* the places of s where the terminator "]]>" starts
TerminatorsIn(s) == {i \in 1..(Len(s) - 2) : SubSeq(s, i, i + 2) = CDATA_END}

\* where the section that opens s ends: its first terminator, 0 when s opens
\* no section or the section is not closed
SectionEnd(s) ==
    IF StartsWith(s, CDATA_OPEN) /\ TerminatorsIn(Drop(s, Len(CDATA_OPEN))) # {}
    THEN Len(CDATA_OPEN)
         + (CHOOSE i \in TerminatorsIn(Drop(s, Len(CDATA_OPEN))) :
               \A j \in TerminatorsIn(Drop(s, Len(CDATA_OPEN))) : i <= j)
    ELSE 0

RECURSIVE OnlySections(_)
\* s is a sequence of CDATA sections and nothing else
OnlySections(s) ==
    \/ s = <<>>
    \/ SectionEnd(s) # 0 /\ OnlySections(Drop(s, SectionEnd(s) + 2))

RECURSIVE SectionContents(_)
\* the contents of the sections of s, as a parser reads them
SectionContents(s) ==
    IF s = <<>> \/ SectionEnd(s) = 0 THEN <<>>
    ELSE <<SubSeq(s, Len(CDATA_OPEN) + 1, SectionEnd(s) - 1)>>
         \o SectionContents(Drop(s, SectionEnd(s) + 2))

\* C19: what wrap_cdata returns is a sequence of CDATA sections in which
\* "]]>" occurs only as the end of a section, and the contents of the sections
\* joined are the text without its XML-illegal characters.
C19_CdataSectionsGiveBackText ==
    cdata_out # <<>> =>
        /\ OnlySections(cdata_out)
        /\ Cardinality(TerminatorsIn(cdata_out)) = Len(SectionContents(cdata_out))
        /\ Concat(SectionContents(cdata_out)) = SelectSeq(cdata_text, LAMBDA c : c # "\f")

\* the text "]]>]]>" was wrapped, into three sections
C19_Witness ==
    /\ cdata_text = CDATA_END \o CDATA_END
    /\ Len(SectionContents(cdata_out)) = 3

(***************************************************************************)
(* Claims about the construction of the worker.                            *)
(***************************************************************************)

\* C20: a cancellation that a poll of rule loading observes is caught by the
\* worker and reported as a clean stop: the log holds the line of a stop by
\* the user and no exception reaches the caller of the worker.
C20_LoadCancellationStopsCleanly ==
    ign_pc = "interrupted" =>
        /\ LogCount("!!! PROCESS STOPPED BY USER !!!") = 1
        /\ run_pc # "escaped"

(***************************************************************************)
(* Claims about the rule engine and the directory a rule file lies in.     *)
(***************************************************************************)

\* the rules whose scope directory is not dir
RulesNotOf(dir) == SelectSeq(rules, LAMBDA rule : rule.base # dir)

\* C29: a rule file in directory D never changes the verdict for D itself:
\* match_ignore(D, is_dir = true) is the same with and without the rules
\* whose scope directory is D.
C29_OwnRuleFileNeverDecidesDirectory ==
    (query # <<>> /\ query[2]) =>
        verdict = match_ignore_with(RulesNotOf(query[1]), query[1], TRUE)

\* the rules loaded from the rule files of the proper ancestors of dir
RulesOfAncestors(dir) ==
    SelectSeq(rules, LAMBDA rule : ProperAncestor(rule.base, dir))

\* dir is pruned: it is in the built-in ignore set, custom-excluded under the
\* fully-exclude mode, or ignored by the rules of its ancestor directories
Pruned(dir) ==
    \/ PathName(dir) \in ALWAYS_IGNORE_DIRS
    \/ is_custom_excluded(dir) /\ exclusion_mode = "Fully Exclude"
    \/ match_ignore_with(RulesOfAncestors(dir), dir, TRUE)

\* C22: rule discovery never descends into an already-pruned directory: no
\* loaded rule comes from a rule file that lies in or below a directory that
\* is in the built-in ignore set, fully excluded, or ignored by the rules
\* loaded from its ancestor directories.
C22_NoRuleFromPrunedDirectory ==
    ign_pc = "loaded" =>
        \A i \in DOMAIN rules :
            \A dir \in Dirs \ {RootDir} :
                IsUnder(rules[i].base, dir) => ~Pruned(dir)

(***************************************************************************)
(* Claims about rule files that cannot be read.                            *)
(***************************************************************************)

\* the places of the rule files whose read raises
UnreadableRuleFiles == {i \in DOMAIN RuleFileLocs : rule_read_fail[i] # -1}

\* the lines load_all_gitignores logs whatever the rule files are
LoadFrameLines ==
    {"-> Scanning for .gitignore and .smartignore files..."}
    \cup {LoadedLine(c, n) : c \in 0..Len(RuleFileLocs), n \in 0..Len(rules)}

\* C23: an unreadable rule file is logged and skipped: when the read of a rule
\* file fails, load_all_gitignores logs a message about that file, adds none
\* of the file's rules to the rule list, does not count the file as loaded,
\* and goes on to the remaining rule files without raising.
C23_UnreadableRuleFileLoggedAndSkipped ==
    (ign_pc = "loaded" /\ UnreadableRuleFiles # {}) =>
        /\ \E k \in DOMAIN log : log[k] \notin LoadFrameLines
        /\ \A i \in UnreadableRuleFiles :
               \A k \in DOMAIN rules : rules[k].base # RuleFileLocs[i][1]
        /\ LogCount(LoadedLine(Cardinality({i \in DOMAIN RuleFileLocs :
                                              rule_files[i] # <<>>})
                                - Cardinality(UnreadableRuleFiles),
                                Len(rules))) = 1
        /\ run_pc # "escaped"

(***************************************************************************)
(* Claims about the ranking of the top-level folders.                      *)
(***************************************************************************)

\* the place of folder `name` in discovery order
Discovery(name) ==
    CHOOSE i \in DOMAIN top_level_scan : top_level_scan[i].name = name

\* the aggregate byte size of the collected files of folder `name`
AggregateBytes(name) == top_level_scan[Discovery(name)].bytes

\* the size the scan loop attributes to folder `name`: 0 for a custom-excluded
\* folder, the aggregate byte size of its collected files otherwise
AttributedSize(name) ==
    IF top_level_scan[Discovery(name)].excluded THEN 0 ELSE AggregateBytes(name)

\* analyzed_folders holds the folders with files, each once
RanksEveryFolderOnce ==
    /\ {analyzed_folders[i].name : i \in DOMAIN analyzed_folders}
          = {top_level_scan[i].name : i \in {k \in DOMAIN top_level_scan :
                                                top_level_scan[k].files # <<>>}}
    /\ \A i, j \in DOMAIN analyzed_folders :
           analyzed_folders[i].name = analyzed_folders[j].name => i = j

\* the folder volumes of the plan are the first folders of the ranking, in
\* its order, and OTHERS holds the files of the folders after them, in its
\* order
PlanFollowsRanking ==
    plan_pc = "planned" =>
        LET own == SelectSeq(planned_dumps, LAMBDA v : v.kind = "FOLDER")
            others == SelectSeq(planned_dumps, LAMBDA v : v.kind = "OTHERS")
            n == Len(own)
            rest == Drop(analyzed_folders, n)
        IN  /\ n <= Len(analyzed_folders)
            /\ \A i \in 1..n :
                   /\ own[i].name = analyzed_folders[i].name
                   /\ own[i].files = analyzed_folders[i].files
            /\ IF rest = <<>> THEN others = <<>>
               ELSE /\ Len(others) = 1
                    /\ others[1].files
                          = Concat([k \in 1..Len(rest) |-> rest[k].files])

\* C25 as stated: the top-level folders are ranked by the aggregate byte size
\* of their collected files, descending, folders of equal aggregate size in
\* discovery order, and the folder volumes and the split between own-volume
\* folders and OTHERS follow the ranking.
C25_RankedByAggregateBytes ==
    plan_pc \in {"plan", "planned"} =>
        /\ RanksEveryFolderOnce
        /\ \A i, j \in DOMAIN analyzed_folders :
               i < j =>
                   LET a == analyzed_folders[i].name
                       b == analyzed_folders[j].name
                   IN  \/ AggregateBytes(a) > AggregateBytes(b)
                       \/ /\ AggregateBytes(a) = AggregateBytes(b)
                          /\ Discovery(a) < Discovery(b)
        /\ PlanFollowsRanking

\* C25 (amended): the top-level folders are ranked by the size the scan
\* attributes to them, which is the aggregate byte size of their collected
\* files, or 0 for a custom-excluded folder, in descending order; folders of
\* equal attributed size keep their discovery order, and the folder volumes
\* and the split between own-volume folders and OTHERS follow the ranking.
C25_RankedByAttributedSize ==
    plan_pc \in {"plan", "planned"} =>
        /\ RanksEveryFolderOnce
        /\ \A i \in DOMAIN analyzed_folders :
               analyzed_folders[i].size = AttributedSize(analyzed_folders[i].name)
        /\ \A i, j \in DOMAIN analyzed_folders :
               i < j =>
                   LET a == analyzed_folders[i].name
                       b == analyzed_folders[j].name
                   IN  \/ AttributedSize(a) > AttributedSize(b)
                       \/ /\ AttributedSize(a) = AttributedSize(b)
                          /\ Discovery(a) < Discovery(b)
        /\ PlanFollowsRanking

\* C25 witness: three folders, the first custom-excluded with files of 2
\* bytes, the other two of 1 byte each: the ranking is second, third, first,
\* and with two slots the second has its own volume, OTHERS the rest.
C25_Witness ==
    /\ plan_pc = "planned"
    /\ Len(analyzed_folders) = 3
    /\ top_level_scan[1].excluded /\ top_level_scan[1].bytes = 2
    /\ <<analyzed_folders[1].name, analyzed_folders[2].name,
         analyzed_folders[3].name>> = <<2, 3, 1>>
    /\ AggregateBytes(2) = 1 /\ AggregateBytes(3) = 1
    /\ Len(planned_dumps) = 2
    /\ planned_dumps[1].kind = "FOLDER" /\ planned_dumps[1].name = 2
    /\ planned_dumps[2].kind = "OTHERS"

(***************************************************************************)
(* Claims about the collecting loop and cancellation.                      *)
(***************************************************************************)

\* the places of the results the collecting loop has taken so far
TakenResults == {NextResult(k) : k \in 0..(vol_k - 1)}

\* the collecting loop is over: every result was taken without a raise
CollectionOver == vol_files # <<>> /\ vol_k = Len(vol_files)

\* C26: the flag is only ever set during a run, and whenever a worker returns
\* no record because of cancellation the collecting loop raises before the
\* volume is rendered: no result taken into the list is the empty one, and
\* whenever the loop is over or a volume is written the record list is as
\* long as the file list of the plan.
C26_NoVolumeFromShorterList ==
    /\ [][stop_event => stop_event']_vars
    /\ [](\A i \in TakenResults : worker_results[i] # NoneRecord)
    /\ []((CollectionOver \/ vol_index # <<>> \/ vol_meta.returned = "meta")
            => Len(file_data_list) = Len(vol_plan))

\* a worker returned no record after another had returned one, and the
\* collecting loop raised
C26_Witness ==
    /\ vol_pc = "interrupted"
    /\ vol_k >= 1
    /\ \E i \in DOMAIN worker_results : worker_results[i] = NoneRecord
    /\ \E i \in DOMAIN worker_results :
           worker_results[i] \notin {NoneRecord, PendingRecord}

(***************************************************************************)
(* Claims about the relative paths of the records of one volume.           *)
(***************************************************************************)

\* C30: within one volume the records of two distinct files carry distinct
\* relative paths, for every kind, error included: the records collected for
\* the volume, its index entries and its contained_files name no path twice.
C30_DistinctRelativePaths ==
    /\ \A i, j \in DOMAIN file_data_list :
           i # j => file_data_list[i].rel_path # file_data_list[j].rel_path
    /\ \A i, j \in DOMAIN vol_index : i # j => vol_index[i] # vol_index[j]
    /\ MetaReturned =>
           \A i, j \in DOMAIN vol_meta.contained_files :
               i # j => vol_meta.contained_files[i] # vol_meta.contained_files[j]

(***************************************************************************)
(* Claims about the output files and cancellation.                         *)
(***************************************************************************)

\* the lines a handler logs when it takes the InterruptedError of a poll (no
\* I/O call fails in SpecRun, so nothing else logs them)
InterruptLines ==
    {"!!! PROCESS STOPPED BY USER !!!", "Error writing TEXT file",
     "(warn) Could not write txt companion",
     "(warn) Could not create single upload doc"}

\* a poll has observed the flag set: the interrupted signal was raised
SignalRaised == \E k \in DOMAIN log : log[k] \in InterruptLines

\* C27: after any poll has observed the cancellation flag set, no further
\* output file (volume, companion copy, master index, upload document,
\* matched-paths file, instructions document) is opened for writing.
C27_NoFileOpenedAfterSignal ==
    [][SignalRaised => out_files' = out_files]_vars

(***************************************************************************)
(* Claims about the volumes on disk, their navigation and write failures.  *)
(***************************************************************************)

\* the files of the output directory that are the volume of planned_dumps[i]
VolumeFilesOf(i) ==
    {k \in DOMAIN out_files :
        out_files[k].kind = "volume" /\ out_files[k].idx = i}

\* the writer of planned_dumps[i] returned a meta: the volume was written
VolumeWasWritten(i) == \E k \in DOMAIN generated_meta : generated_meta[k] = i

\* the writer of planned_dumps[i] returned None (SpecWrite has no
\* cancellation: the writer failed on an I/O error)
WriterFailed(i) == i < vol_i /\ ~VolumeWasWritten(i)

\* what the line `key` of the navigation of a file says, <<>> without it
Link(file, key) ==
    LET hits == {k \in DOMAIN file.nav : file.nav[k].key = key}
    IN  IF hits = {} THEN <<>> ELSE file.nav[CHOOSE k \in hits : TRUE].value

\* the write loop is over
LoopOver == vol_i > Len(planned_dumps)

\* C21: when a volume writer signals failure for a reason other than
\* cancellation, no partial file of that volume is left in the output
\* directory, the volume is absent from the generated metadata (the failure
\* is logged once), and the run goes on with the next planned volume up to
\* its SUCCESS line.
C21_FailedVolumeLeavesNoFile ==
    LET failed == {i \in DOMAIN planned_dumps : WriterFailed(i)}
    IN  /\ \A i \in failed : VolumeFilesOf(i) = {}
        /\ LogCount(WriterErrorLine) = Cardinality(failed)
        /\ Len(generated_meta) + Cardinality(failed) = vol_i - 1
        /\ last_exception_traceback = "None"
        /\ run_pc = "returned" =>
               LoopOver /\ LogCount("SUCCESS! Completed in:") = 1

\* the volume file of planned_dumps[i] holds the navigation of C24
NavigationOf(i, file) ==
    LET n == Len(planned_dumps)
    IN  /\ Link(file, "home") = InstructionsFilename
        /\ Link(file, "prev_volume")
              = (IF i > 1 THEN Filename(planned_dumps[i - 1]) ELSE <<>>)
        /\ Link(file, "prev_title")
              = (IF i > 1 THEN ShortTitle(planned_dumps[i - 1]) ELSE <<>>)
        /\ Link(file, "next_volume")
              = (IF i < n THEN Filename(planned_dumps[i + 1]) ELSE <<>>)
        /\ Link(file, "next_title")
              = (IF i < n THEN ShortTitle(planned_dumps[i + 1]) ELSE <<>>)

\* C24: for the planned sequence v1..vn the navigation written into vi names
\* v(i-1) as previous and v(i+1) as next volume with their short titles, v1
\* has no previous link and vn no next link, the home link of every volume
\* is the instructions document, and next(vi) = vj exactly when
\* prev(vj) = vi.
C24_NavigationFollowsPlan ==
    /\ \A i \in DOMAIN planned_dumps :
           VolumeWasWritten(i) =>
               /\ VolumeFilesOf(i) # {}
               /\ \A k \in VolumeFilesOf(i) : NavigationOf(i, out_files[k])
    /\ \A i, j \in DOMAIN planned_dumps :
           (VolumeWasWritten(i) /\ VolumeWasWritten(j)) =>
               \A a \in VolumeFilesOf(i), b \in VolumeFilesOf(j) :
                   Link(out_files[a], "next_volume") = Filename(planned_dumps[j])
                   <=> Link(out_files[b], "prev_volume") = Filename(planned_dumps[i])

\* three volumes or more were written, in XML, the run is over
C24_Witness ==
    /\ run_pc = "returned"
    /\ output_format = "xml"
    /\ Len(generated_meta) >= 3
    /\ Len(generated_meta) = Len(planned_dumps)
    /\ planned_dumps[1].kind = "ROOT"
    /\ planned_dumps[Len(planned_dumps)].kind = "OTHERS"

\* C28: every previous/next link written into a volume names a volume file
\* that was written (it is in the generated metadata), also when the writer
\* of another planned volume returned failure.
C28_LinksNameWrittenVolumes ==
    LoopOver =>
        \A k \in DOMAIN out_files :
            \A key \in {"prev_volume", "next_volume"} :
                (out_files[k].kind = "volume" /\ Link(out_files[k], key) # <<>>)
                    => \E j \in DOMAIN planned_dumps :
                          /\ VolumeWasWritten(j)
                          /\ Filename(planned_dumps[j]) = Link(out_files[k], key)

====
